---- MODULE Spec2Model ----
(***************************************************************************)
(* Model of the agent orchestration core of agenticai-langgraph-chatbot:   *)
(* the guardrails / memory wrappers around the language model, the tool    *)
(* registration of the MCP use case, and the conversation graph built by   *)
(* GraphBuilder (chatbot node, tool node, conditional edge).               *)
(***************************************************************************)
EXTENDS Integers, Sequences, FiniteSets, TLC

VARIABLES
    environ,        \* os.environ of the process
    client,         \* MCPClientManager: its MCPConfig, toolkits and last get_all_tools result
    gr_enabled,     \* GuardrailsConfig.enabled (process-wide, set at import)
    gr_guards,      \* names of the guards of GuardrailsConfig.guards that are not None
    usecase,        \* use case given to setup_graph ("none" before setup)
    mcp_config,     \* the mcp_config argument given to setup_graph
    graph,          \* topology compiled by setup_graph: "none", "single", "tools"
    setup_error,    \* exception raised by setup_graph ("none" when it returned)
    tools,          \* tool names registered in the graph's tool node
    node,           \* position of the state machine: START, chatbot, tools, END
    raised,         \* TRUE when an exception left the running turn (turn aborted)
    messages,       \* ConversationState: State["messages"]
    pending,        \* tool-exec step: per tool-call request "idle", "running", "done"
    results,        \* tool-exec step: per tool-call request the tool's return value
    finish_order,   \* tool-exec step: request indexes in order of completion
    cycles,         \* completed tool-exec steps of the turn
    tool_runs,      \* per tool-call id issued in the turn, the invocations of its tool
    steps,          \* nodes executed during the turn, in order
    last,           \* record of the most recent wrapper call (op, input, outcome)
    sink,           \* the telemetry sink (Langfuse) of the process
    telemetry       \* what log_user_interaction did for the turn's final answer

vars == <<environ, client, sink, telemetry, gr_enabled, gr_guards, usecase, mcp_config, graph, setup_error, tools,
          node, raised, messages, pending, results, finish_order, cycles,
          tool_runs, steps, last>>

----------------------------------------------------------------------------
(* Bounds of the model *)

MaxRequests == 2    \* tool-call requests the model issues in one turn
MaxInputLen == 2    \* length of message lists given directly to a wrapper
MaxServers == 2     \* entries of an mcpServers mapping given to registration
MaxRegistrations == 2   \* calls of create_mcp_tools_from_config on one mapping
MaxRuns == 2        \* invocations of MCPTool._run, possibly overlapping

----------------------------------------------------------------------------
(* Messages *)

NoCalls == <<>>

HumanMessage(c) == [type |-> "human", content |-> c, tool_calls |-> NoCalls, tool_call_id |-> 0]
AIMessage(c, tcs) == [type |-> "ai", content |-> c, tool_calls |-> tcs, tool_call_id |-> 0]
ToolMessage(c, id) == [type |-> "tool", content |-> c, tool_calls |-> NoCalls, tool_call_id |-> id]
SystemMessage(c) == [type |-> "system", content |-> c, tool_calls |-> NoCalls, tool_call_id |-> 0]

\* the value standing for "no message" (None, or nothing returned)
NoMessage == [type |-> "none", content |-> "", tool_calls |-> NoCalls, tool_call_id |-> 0]
\* the outcome "the call raised an exception"
Raises == [type |-> "raise", content |-> "", tool_calls |-> NoCalls, tool_call_id |-> 0]

SafeRefusal == "I cannot process this request due to safety guidelines. Please rephrase your question."
SafeFallback == "I apologize, but I cannot provide a response that meets safety guidelines. Please try rephrasing your question."

\* one entry of the event log of a wrapper call
Ev(e, a) == [e |-> e, a |-> a]

CountEv(log, e) == Cardinality({i \in 1..Len(log) : log[i].e = e})
HasEv(log, e, a) == \E i \in 1..Len(log) : log[i] = Ev(e, a)

----------------------------------------------------------------------------
(* Texts.  A guard's verdict is a function of the text it is given.        *)

UserTexts == {"hello", "hello (raw)", "toxic"}
OutputTexts == {"a long enough answer", "unsafe", "short", ""}

\* Guard.validate(text): validation_passed and validated_output
GuardValidate(guard, text) ==
    CASE guard = "input_safety" /\ text = "toxic" ->
            [validation_passed |-> FALSE, validated_output |-> text]
      [] guard = "input_safety" /\ text = "hello (raw)" ->
            [validation_passed |-> TRUE, validated_output |-> "hello"]
      [] guard = "content_moderation" /\ text \in {"unsafe", "toxic"} ->
            [validation_passed |-> FALSE, validated_output |-> text]
      [] guard = "output_quality" /\ text \in {"short", ""} ->
            [validation_passed |-> FALSE, validated_output |-> text]
      [] OTHER ->
            [validation_passed |-> TRUE, validated_output |-> text]

----------------------------------------------------------------------------
(* GuardrailsConfig and ValidationService *)

GuardNames == {"input_safety", "output_quality", "content_moderation", "structured_output"}

\* keys of GuardrailsConfig.guards: every _create_* result is stored, None included
gr_keys == IF gr_enabled THEN GuardNames ELSE {}

is_enabled == gr_enabled /\ Cardinality(gr_keys) > 0

get_guard(guard_type) ==
    IF ~gr_enabled THEN "none"
    ELSE IF guard_type \in gr_guards THEN guard_type ELSE "none"

Verdict(v, t, e) == [is_valid |-> v, text |-> t, error_msg |-> e]

\* validate_user_input treating an internal error of the guard as a failed check
validate_user_input_FailClosed(user_input, guard_raises) ==
    IF ~is_enabled THEN Verdict(TRUE, user_input, "none")
    ELSE LET guard == get_guard("input_safety") IN
         IF guard = "none" THEN Verdict(TRUE, user_input, "none")
         ELSE IF guard_raises THEN Verdict(FALSE, user_input, "Input validation failed")
         ELSE LET result == GuardValidate(guard, user_input) IN
              IF result.validation_passed
              THEN Verdict(TRUE, result.validated_output, "none")
              ELSE Verdict(FALSE, user_input, "Input validation failed")

\* validate_user_input; guard_raises: the guard's validate raises internally
validate_user_input(user_input, guard_raises) ==
    IF ~is_enabled THEN Verdict(TRUE, user_input, "none")
    ELSE LET guard == get_guard("input_safety") IN
         IF guard = "none" THEN Verdict(TRUE, user_input, "none")
         ELSE IF guard_raises THEN Verdict(TRUE, user_input, "none")
         ELSE LET result == GuardValidate(guard, user_input) IN
              IF result.validation_passed
              THEN Verdict(TRUE, result.validated_output, "none")
              ELSE Verdict(FALSE, user_input, "Input validation failed")

OutputGuardOf(uc) ==
    IF uc \in {"MCP Chatbot", "Chatbot with Tool"}
    THEN "content_moderation" ELSE "output_quality"

\* validate_llm_output returning no error message with a failed check
validate_llm_output_NoMessage(llm_output, uc, guard_raises) ==
    IF ~is_enabled THEN Verdict(TRUE, llm_output, "none")
    ELSE LET guard == get_guard(OutputGuardOf(uc)) IN
         IF guard = "none" THEN Verdict(TRUE, llm_output, "none")
         ELSE IF guard_raises THEN Verdict(TRUE, llm_output, "none")
         ELSE LET result == GuardValidate(guard, llm_output) IN
              IF result.validation_passed
              THEN Verdict(TRUE, result.validated_output, "none")
              ELSE Verdict(FALSE, SafeFallback, "none")

validate_llm_output(llm_output, uc, guard_raises) ==
    IF ~is_enabled THEN Verdict(TRUE, llm_output, "none")
    ELSE LET guard == get_guard(OutputGuardOf(uc)) IN
         IF guard = "none" THEN Verdict(TRUE, llm_output, "none")
         ELSE IF guard_raises THEN Verdict(TRUE, llm_output, "none")
         ELSE LET result == GuardValidate(guard, llm_output) IN
              IF result.validation_passed
              THEN Verdict(TRUE, result.validated_output, "none")
              ELSE Verdict(FALSE, SafeFallback, "Output validation failed")

\* the except branch of validate_user_input was taken: the guard's validate
\* raised and the input passed unchecked
InputGuardErrored(guard_raises) ==
    is_enabled /\ get_guard("input_safety") # "none" /\ guard_raises

\* the except branch of validate_llm_output was taken: the guard's validate
\* raised and the output passed unchecked
OutputGuardErrored(uc, guard_raises) ==
    is_enabled /\ get_guard(OutputGuardOf(uc)) # "none" /\ guard_raises

----------------------------------------------------------------------------
(* Inputs and outcomes of a wrapper call *)

StrInput(t) == [kind |-> "str", text |-> t, msgs |-> <<>>]
ListInput(ms) == [kind |-> "list", text |-> "", msgs |-> ms]

\* "if error_msg: st.warning(...)": the warning is shown when the verdict
\* carries an error message
WarnIf(error_msg, what) == IF error_msg # "none" THEN <<Ev("warn", what)>> ELSE <<>>

\* raised: an exception left the call; ret: the value returned; input: the
\* caller's input object after the call; log: what happened, in order;
\* calls: the inputs the underlying model received, in order
Result(r, m, inp, log, calls) ==
    [raised |-> r, ret |-> m, input |-> inp, log |-> log, calls |-> calls]

ModelEv(m) == Ev("model", IF m = Raises THEN "raised" ELSE "returned")

\* an unwrapped model: one call, its exception reaches the caller
Raw_invoke(input, m1) ==
    Result(m1 = Raises, IF m1 = Raises THEN NoMessage ELSE m1, input,
           <<ModelEv(m1)>>, <<input>>)

----------------------------------------------------------------------------
(* GuardrailsLLMWrapper *)

\* the loop of lines 100-110 warning about a rejected message and going on
RECURSIVE ValidateMessages_WarnOnly(_, _, _, _)
ValidateMessages_WarnOnly(msgs, i, in_raise, log) ==
    IF i > Len(msgs) THEN [rejected |-> FALSE, msgs |-> msgs, log |-> log]
    ELSE IF msgs[i].type # "human" THEN ValidateMessages_WarnOnly(msgs, i + 1, in_raise, log)
    ELSE LET v == validate_user_input(msgs[i].content, i \in in_raise) IN
         ValidateMessages_WarnOnly(
            msgs, i + 1, in_raise,
            IF ~v.is_valid
            THEN log \o <<Ev("validate_input", "invalid")>> \o WarnIf(v.error_msg, "input")
            ELSE Append(log, Ev("validate_input", "valid")))

\* lines 100-110 of invoke: the loop over the messages of a list input
RECURSIVE ValidateMessages(_, _, _, _)
ValidateMessages(msgs, i, in_raise, log) ==
    IF i > Len(msgs) THEN [rejected |-> FALSE, msgs |-> msgs, log |-> log]
    ELSE IF msgs[i].type # "human" THEN ValidateMessages(msgs, i + 1, in_raise, log)
    ELSE LET v == validate_user_input(msgs[i].content, i \in in_raise) IN
         IF ~v.is_valid
         THEN [rejected |-> TRUE, msgs |-> msgs,
               log |-> log \o <<Ev("validate_input", "invalid")>> \o WarnIf(v.error_msg, "input")]
         ELSE ValidateMessages(
                 IF v.text # msgs[i].content
                 THEN [msgs EXCEPT ![i] = HumanMessage(v.text)] ELSE msgs,
                 i + 1, in_raise,
                 Append(log, Ev("validate_input",
                                IF InputGuardErrored(i \in in_raise) THEN "error"
                                ELSE "valid")))

\* lines 87-110 of invoke: input validation of a string or of a message list
ValidateInput(input, in_raise) ==
    IF input.kind = "str"
    THEN LET v == validate_user_input(input.text, 1 \in in_raise) IN
         IF ~v.is_valid
         THEN [rejected |-> TRUE, input |-> input,
               log |-> <<Ev("validate_input", "invalid")>> \o WarnIf(v.error_msg, "input")]
         ELSE [rejected |-> FALSE, input |-> StrInput(v.text),
               log |-> <<Ev("validate_input",
                            IF InputGuardErrored(1 \in in_raise) THEN "error"
                            ELSE "valid")>>]
    ELSE LET r == ValidateMessages(input.msgs, 1, in_raise, <<>>) IN
         [rejected |-> r.rejected, input |-> ListInput(r.msgs), log |-> r.log]

\* output validation returning a new message with the safe text in place of
\* the model's message
ValidateOutput_NewMessage(result, uc, out_raise) ==
    IF result.type = "ai" /\ result.content # ""
    THEN LET v == validate_llm_output(result.content, uc, out_raise) IN
         IF ~v.is_valid
         THEN [ret |-> AIMessage(v.text, NoCalls),
               log |-> <<Ev("validate_output", "invalid")>> \o WarnIf(v.error_msg, "output")]
         ELSE [ret |-> result,
               log |-> <<Ev("validate_output",
                            IF OutputGuardErrored(uc, out_raise) THEN "error" ELSE "valid")>>]
    ELSE [ret |-> result, log |-> <<>>]

\* lines 115-126 of invoke: output validation of the model's result
ValidateOutput(result, uc, out_raise) ==
    IF result.type = "ai" /\ result.content # ""
    THEN LET v == validate_llm_output(result.content, uc, out_raise) IN
         IF ~v.is_valid
         THEN [ret |-> [result EXCEPT !.content = v.text],
               log |-> <<Ev("validate_output", "invalid")>> \o WarnIf(v.error_msg, "output")]
         ELSE [ret |-> result,
               log |-> <<Ev("validate_output",
                            IF OutputGuardErrored(uc, out_raise) THEN "error" ELSE "valid")>>]
    ELSE [ret |-> result, log |-> <<>>]

\* lines 128-130 of invoke: the except branch calls the model again
InvokeFallback(input, log, calls, m2) ==
    Result(m2 = Raises, IF m2 = Raises THEN NoMessage ELSE m2, input,
           Append(log, ModelEv(m2)), Append(calls, input))

\* invoke answering a rejected input the way _generate does at line 50: by
\* calling the model on the refusal text
Guardrails_invoke_CallsModelOnReject(input, uc, in_raise, out_raise, m1, m2) ==
    LET pre == ValidateInput(input, in_raise)
        safe == ListInput(<<HumanMessage(SafeRefusal)>>)
    IN IF pre.rejected
       THEN Result(m1 = Raises,
                   IF m1 = Raises THEN NoMessage ELSE AIMessage(SafeRefusal, NoCalls),
                   pre.input, Append(pre.log, ModelEv(m1)), <<safe>>)
       ELSE LET log1 == Append(pre.log, ModelEv(m1)) IN
            IF m1 = Raises
            THEN InvokeFallback(pre.input, log1, <<pre.input>>, m2)
            ELSE LET post == ValidateOutput(m1, uc, out_raise) IN
                 Result(FALSE, post.ret, pre.input, log1 \o post.log, <<pre.input>>)

\* GuardrailsLLMWrapper.invoke(input_data); m1, m2: what the underlying model
\* does on its first and second call; in_raise, out_raise: where a guard's
\* validate raises internally
Guardrails_invoke(input, uc, in_raise, out_raise, m1, m2) ==
    LET pre == ValidateInput(input, in_raise) IN
    IF pre.rejected
    THEN Result(FALSE, AIMessage(SafeRefusal, NoCalls), pre.input, pre.log, <<>>)
    ELSE LET log1 == Append(pre.log, ModelEv(m1)) IN
         IF m1 = Raises
         THEN InvokeFallback(pre.input, log1, <<pre.input>>, m2)
         ELSE LET post == ValidateOutput(m1, uc, out_raise) IN
              Result(FALSE, post.ret, pre.input, log1 \o post.log, <<pre.input>>)

\* lines 79-81 of _generate: the except branch calls the model's _generate again
GenerateFallback(msgs, log, calls, m2) ==
    Result(m2 = Raises, IF m2 = Raises THEN NoMessage ELSE m2, ListInput(msgs),
           Append(log, ModelEv(m2)), Append(calls, ListInput(msgs)))

\* lines 60-75 of _generate: every generation's message content is validated
ValidateGenerations(result, uc, out_raise) ==
    IF result.type = "ai"
    THEN LET v == validate_llm_output(result.content, uc, out_raise) IN
         IF ~v.is_valid
         THEN [ret |-> [result EXCEPT !.content = v.text],
               log |-> <<Ev("validate_output", "invalid")>> \o WarnIf(v.error_msg, "output")]
         ELSE [ret |-> result,
               log |-> <<Ev("validate_output",
                            IF OutputGuardErrored(uc, out_raise) THEN "error" ELSE "valid")>>]
    ELSE [ret |-> result, log |-> <<>>]

\* GuardrailsLLMWrapper._generate(messages); the ChatResult is modelled by the
\* message of its generation
Guardrails_generate(msgs, uc, in_raise, out_raise, m1, m2) ==
    LET n == Len(msgs)
        user_input == IF n > 0 /\ msgs[n].type = "human" THEN msgs[n].content ELSE ""
        v == validate_user_input(user_input, n \in in_raise)
    IN
    IF user_input # "" /\ ~v.is_valid
    THEN \* line 50: the model is called on the refusal text
         LET log0 == <<Ev("validate_input", "invalid")>> \o WarnIf(v.error_msg, "input")
             safe == ListInput(<<HumanMessage(SafeRefusal)>>)
         IN IF m1 = Raises
            THEN GenerateFallback(msgs, Append(log0, ModelEv(m1)), <<safe>>, m2)
            ELSE Result(FALSE, m1, ListInput(msgs), Append(log0, ModelEv(m1)), <<safe>>)
    ELSE LET msgs1 == IF user_input # "" /\ v.text # user_input
                      THEN [msgs EXCEPT ![n] = HumanMessage(v.text)] ELSE msgs
             log0 == IF user_input # ""
                     THEN <<Ev("validate_input",
                               IF InputGuardErrored(n \in in_raise) THEN "error"
                               ELSE "valid")>>
                     ELSE <<>>
             log1 == Append(log0, ModelEv(m1))
         IN IF m1 = Raises
            THEN GenerateFallback(msgs1, log1, <<ListInput(msgs1)>>, m2)
            ELSE LET post == ValidateGenerations(m1, uc, out_raise) IN
                 Result(FALSE, post.ret, ListInput(msgs1), log1 \o post.log,
                        <<ListInput(msgs1)>>)

\* create_guardrails_llm: the model is wrapped only when guardrails are enabled
create_guardrails_llm == IF is_enabled THEN "guardrails" ELSE "raw"

\* a model object: the guardrails wrapper or the bare model, the use case a
\* wrapper validates for, and whether tools are bound to the underlying model
LLM(k, uc, b) == [kind |-> k, usecase |-> uc, bound |-> b]

\* GroqLLM.get_llm_model(usecase): the ChatGroq model, wrapped by
\* create_guardrails_llm(llm, usecase) when guardrails are enabled;
\* create_monitored_llm returns a model of the same kind
get_llm_model(uc) ==
    IF create_guardrails_llm = "guardrails" THEN LLM("guardrails", uc, FALSE)
    ELSE LLM("raw", "none", FALSE)

\* bind_tools wrapping the bound model without passing the use case on:
\* the wrapper's default "general"
bind_tools_DefaultUseCase(llm) ==
    IF llm.kind = "guardrails" THEN LLM("guardrails", "general", TRUE)
    ELSE LLM("raw", "none", TRUE)

\* bind_tools reaching the wrapped model through __getattr__: the bound bare
\* model is returned
bind_tools_Delegated(llm) == LLM("raw", "none", TRUE)

\* llm.bind_tools(tools): GuardrailsLLMWrapper.bind_tools binds the tools to
\* the wrapped model and wraps the result again with the same use case
bind_tools(llm) ==
    IF llm.kind = "guardrails" THEN LLM("guardrails", llm.usecase, TRUE)
    ELSE LLM("raw", "none", TRUE)

----------------------------------------------------------------------------
(* MemoryLLMWrapper *)

\* the memory store as one call sees it: tool / system: the handles are set;
\* execute, search: what memory_tool.execute and .search do ("raise",
\* "empty", "found"); has_search: the tool has a search attribute;
\* record: what memory_system.record_conversation does ("ok", "raise")
MemoryStores ==
    [tool : BOOLEAN, system : {TRUE}, execute : {"raise", "empty", "found"},
     has_search : BOOLEAN, search : {"raise", "empty", "found"}, record : {"ok", "raise"}]

\* lines 125-142 of invoke: the text of the input string or of the last human message
RECURSIVE LastHumanText(_, _)
LastHumanText(msgs, i) ==
    IF i = 0 THEN ""
    ELSE IF msgs[i].type = "human" THEN msgs[i].content
    ELSE LastHumanText(msgs, i - 1)

UserTextOf(input) ==
    IF input.kind = "str" THEN input.text ELSE LastHumanText(input.msgs, Len(input.msgs))

\* _prepend_memories(messages, query): the input the model is to receive
prepend_memories(input, mem) ==
    LET result == IF mem.execute # "raise" THEN mem.execute
                  ELSE IF mem.has_search THEN mem.search ELSE "empty"
    IN IF ~mem.tool THEN [input |-> input, log |-> <<>>]
       ELSE IF result = "raise"
            THEN [input |-> input, log |-> <<Ev("memory_query", "raise")>>]
       ELSE IF result = "empty"
            THEN [input |-> input, log |-> <<Ev("memory_query", "empty")>>]
       ELSE IF input.kind = "str"
            THEN \* [sys_msg] + "text" raises TypeError, caught at line 92
                 [input |-> input, log |-> <<Ev("memory_query", "found")>>]
       ELSE [input |-> ListInput(<<SystemMessage("Relevant memories")>> \o input.msgs),
             log |-> <<Ev("memory_query", "found")>>]

\* _record_conversation trying every method of the store in turn, without
\* the return after the first one
record_conversation_EveryMethod(mem) ==
    IF ~mem.system THEN <<>>
    ELSE <<Ev("record", IF mem.record = "ok" THEN "stored" ELSE "failed"),
           Ev("record", IF mem.record = "ok" THEN "stored" ELSE "failed")>>

\* _record_conversation(user_input, ai_output): never raises
record_conversation(mem) ==
    IF ~mem.system THEN <<>>
    ELSE <<Ev("record", IF mem.record = "ok" THEN "stored" ELSE "failed")>>

\* lines 164-189 of invoke: the pair is recorded when both texts are non-empty
RecordAfter(user_text, result, mem) ==
    IF result.type = "ai" /\ user_text # "" /\ result.content # ""
    THEN record_conversation(mem) ELSE <<>>

\* MemoryLLMWrapper.invoke(input_data); m1: llm.invoke, m2: llm._generate,
\* m3: llm.__call__
Memory_invoke(input, mem, m1, m2, m3) ==
    LET user_text == UserTextOf(input)
        pre == IF user_text # "" /\ mem.tool
               THEN prepend_memories(input, mem) ELSE [input |-> input, log |-> <<>>]
        log1 == Append(pre.log, ModelEv(m1))
        log2 == Append(log1, ModelEv(m2))
        log3 == Append(log2, ModelEv(m3))
        c1 == <<pre.input>>
        c2 == <<pre.input, pre.input>>
        c3 == <<pre.input, pre.input, pre.input>>
    IN IF m1 # Raises
       THEN Result(FALSE, m1, input, log1 \o RecordAfter(user_text, m1, mem), c1)
       ELSE IF m2 # Raises
       THEN Result(FALSE, m2, input, log2 \o RecordAfter(user_text, m2, mem), c2)
       ELSE IF m3 # Raises
       THEN Result(FALSE, m3, input, log3 \o RecordAfter(user_text, m3, mem), c3)
       ELSE Result(TRUE, NoMessage, input, log3, c3)

\* wrap_llm_with_memori(llm) applied to the guardrails wrapper of
\* get_llm_model(uc): MemoryLLMWrapper.invoke whose self.llm.invoke is
\* GuardrailsLLMWrapper.invoke, whose self.llm._generate is the wrapper's
\* _generate and whose __call__ is the underlying model's (by __getattr__);
\* m1, m2: the underlying model under invoke, m3, m4: under _generate, m5:
\* called directly
Memory_invoke_wrapped(input, mem, uc, in_raise, out_raise, m1, m2, m3, m4, m5) ==
    LET user_text == UserTextOf(input)
        pre == IF user_text # "" /\ mem.tool
               THEN prepend_memories(input, mem) ELSE [input |-> input, log |-> <<>>]
        r1 == Guardrails_invoke(pre.input, uc, in_raise, out_raise, m1, m2)
        \* the caller's list is the one the wrapper rewrites unless a new list
        \* was built by prepending
        after1 == IF pre.input = input THEN r1.input ELSE input
    IN IF ~r1.raised
       THEN Result(FALSE, r1.ret, after1,
                   pre.log \o r1.log \o RecordAfter(user_text, r1.ret, mem), r1.calls)
       ELSE LET r2 == Guardrails_generate(r1.input.msgs, uc, in_raise, out_raise, m3, m4)
                log2 == pre.log \o r1.log \o r2.log
                calls2 == r1.calls \o r2.calls
            IN IF ~r2.raised
               THEN Result(FALSE, r2.ret, after1,
                           log2 \o RecordAfter(user_text, r2.ret, mem), calls2)
               ELSE IF m5 # Raises
               THEN Result(FALSE, m5, after1,
                           Append(log2, ModelEv(m5)) \o RecordAfter(user_text, m5, mem),
                           Append(calls2, r2.input))
               ELSE Result(TRUE, NoMessage, after1, Append(log2, ModelEv(m5)),
                           Append(calls2, r2.input))

----------------------------------------------------------------------------
(* Tool registration: create_mcp_tools_from_config *)

ServerNames == {"filesystem", "sqlite"}

ToolNameOf(server_name) ==
    CASE server_name = "filesystem" -> "mcp_filesystem"
      [] server_name = "sqlite" -> "mcp_sqlite"
      [] server_name = "github" -> "mcp_github"
      [] OTHER -> "mcp_other"

\* one entry of mcpServers; command "absent": the entry has no command key;
\* well_typed: args and env have the types MCPTool's fields require
ServerEntry(n, d, c, w) == [name |-> n, disabled |-> d, command |-> c, well_typed |-> w]

\* an mcp_config value; given: the dict is non-empty (truthy); has_key: it
\* has the mcpServers key; servers: the mapping's entries in dict order
McpConfig(g, k, sv) == [given |-> g, has_key |-> k, servers |-> sv]

NoConfig == McpConfig(FALSE, FALSE, <<>>)

MCPTool(entry) ==
    [name |-> ToolNameOf(entry.name),
     mcp_command |-> IF entry.command = "absent" THEN "uvx" ELSE entry.command]

\* lines 66-78: the loop over the servers; an exception ends it (line 80)
RECURSIVE RegisterFrom(_, _, _)
RegisterFrom(servers, i, acc) ==
    IF i > Len(servers) THEN acc
    ELSE IF servers[i].disabled THEN RegisterFrom(servers, i + 1, acc)
    ELSE IF ~servers[i].well_typed THEN acc
    ELSE RegisterFrom(servers, i + 1, Append(acc, MCPTool(servers[i])))

\* lines 80-81: an exception in the loop was caught and shown with st.error
create_mcp_tools_error(cfg) ==
    cfg.has_key /\ \E i \in 1..Len(cfg.servers) :
                      ~cfg.servers[i].disabled /\ ~cfg.servers[i].well_typed

\* create_mcp_tools_from_config collecting into a list kept between calls
\* instead of the local list of line 61
create_mcp_tools_from_config_Accumulating(cfg) ==
    RegisterFrom(IF cfg.has_key THEN cfg.servers ELSE <<>>, 1, tools)

\* create_mcp_tools_from_config(mcp_config): the list starts empty (line 61)
create_mcp_tools_from_config(cfg) ==
    RegisterFrom(IF cfg.has_key THEN cfg.servers ELSE <<>>, 1, <<>>)

\* get_tools of search_tool.py: one Tavily search tool, the API key being set
get_tools == <<[name |-> "tavily_search_results_json", mcp_command |-> "none"]>>

----------------------------------------------------------------------------
(* GraphBuilder *)

UseCases == {"Basic Chatbot", "Chatbot with Tool", "AI News", "MCP Chatbot"}

Built(g, ts) == [graph |-> g, error |-> "none", tools |-> ts]
Failed(e) == [graph |-> "none", error |-> e, tools |-> <<>>]

basic_chatbot_build_graph == Built("single", <<>>)

\* chatbot_with_tools_build_graph adding no tool node and a plain edge to END
chatbot_with_tools_build_graph_NoToolNode(tavily_key) ==
    IF ~tavily_key THEN Failed("ValueError: TAVILY_API_KEY environment variable is not set")
    ELSE Built("single", get_tools)

chatbot_with_tools_build_graph(tavily_key) ==
    IF ~tavily_key THEN Failed("ValueError: TAVILY_API_KEY environment variable is not set")
    ELSE Built("tools", get_tools)

\* mcp_chatbot_build_graph without the check of lines 54-55
mcp_chatbot_build_graph_NoCheck(cfg) ==
    Built("tools", create_mcp_tools_from_config(cfg))

mcp_chatbot_build_graph(cfg) ==
    LET mcp_tools == create_mcp_tools_from_config(cfg) IN
    IF mcp_tools = <<>>
    THEN Failed("ValueError: No MCP tools could be created from the configuration")
    ELSE Built("tools", mcp_tools)

\* identifiers setup_graph has no branch for
UnknownUseCases == {"Travel Planner", "basic chatbot"}

\* setup_graph with a final else branch that builds the basic graph
setup_graph_DefaultsToBasic(uc, cfg, tavily_key) ==
    IF uc = "Chatbot with Tool" THEN chatbot_with_tools_build_graph(tavily_key)
    ELSE IF uc = "AI News" THEN chatbot_with_tools_build_graph(tavily_key)
    ELSE IF uc = "MCP Chatbot"
         THEN IF ~cfg.given
              THEN Failed("ValueError: MCP configuration is required for MCP Chatbot")
              ELSE mcp_chatbot_build_graph(cfg)
    ELSE basic_chatbot_build_graph

setup_graph(uc, cfg, tavily_key) ==
    IF uc = "Basic Chatbot" THEN basic_chatbot_build_graph
    ELSE IF uc = "Chatbot with Tool" THEN chatbot_with_tools_build_graph(tavily_key)
    ELSE IF uc = "AI News" THEN chatbot_with_tools_build_graph(tavily_key)
    ELSE IF uc = "MCP Chatbot"
         THEN IF ~cfg.given
              THEN Failed("ValueError: MCP configuration is required for MCP Chatbot")
              ELSE mcp_chatbot_build_graph(cfg)
    ELSE Failed("ValueError: Unknown usecase")

\* a plain edge ("chatbot", END) in place of the conditional edge
tools_condition_AlwaysEnd(msgs) == "END"

\* tools_condition of the conditional edge: the last message decides
tools_condition(msgs) ==
    IF Len(msgs) > 0 /\ msgs[Len(msgs)].type = "ai" /\ Len(msgs[Len(msgs)].tool_calls) > 0
    THEN "tools" ELSE "END"

\* the conditional edge added to the single-step graph too
AfterChatbot_Conditional(g, msgs) == tools_condition(msgs)

\* the successor of the chatbot node in the compiled graph
AfterChatbot(g, msgs) == IF g = "single" THEN "END" ELSE tools_condition(msgs)

\* the tool node wired to END instead of back to the chatbot
AfterTools_End == "END"

\* the tool node with an edge to itself
AfterTools_Self == "tools"

\* the successor of the tool node: the edge ("tools", "chatbot")
AfterTools == "chatbot"

\* the messages channel of State: a node's update is appended
add_messages(left, right) == left \o right

----------------------------------------------------------------------------
(* MCPTool._run and the tool node *)

ProcOutcomes == {"exit0", "nonzero", "timeout", "spawn_error"}

\* the timeout given to subprocess.run, in seconds
TimeoutSeconds == 30

\* subprocess.run called without a timeout: no deadline within the horizon
RunTimeout_None == TimeoutSeconds + 2

\* the deadline after which subprocess.run kills the process and raises
\* TimeoutExpired
RunTimeout == TimeoutSeconds

\* _run letting the exceptions of subprocess.run through
MCPTool_run_NoExcept(proc) ==
    CASE proc = "exit0" -> "stdout"
      [] proc = "nonzero" -> "Error: stderr"
      [] OTHER -> "raise"

\* _run raising on every failure, a non-zero exit included
MCPTool_run_RaisesOnFailure(proc) ==
    CASE proc = "exit0" -> "stdout"
      [] OTHER -> "raise"

\* MCPTool._run(query): the string returned for each outcome of
\* subprocess.run; a timeout and a failure to spawn are both exceptions,
\* caught at line 55 (the exception's own text is not modelled)
MCPTool_run(proc) ==
    CASE proc = "exit0" -> "stdout"
      [] proc = "nonzero" -> "Error: stderr"
      [] OTHER -> "Error executing MCP tool: exception text"

\* the Tavily search tool under the tool node: its results, or the error text
\* the tool node puts in the tool message when the tool raises
TavilyOutcomes == {"search results", "Error: search failed"}

ToolReturns(tool_name) ==
    IF tool_name = "tavily_search_results_json" THEN TavilyOutcomes
    ELSE {MCPTool_run(proc) : proc \in ProcOutcomes}

\* the tool-call requests the tool node executes: those of the last message
Requests(msgs) == msgs[Len(msgs)].tool_calls

\* the tool messages in the order the invocations completed
ToolNodeOutput_ByCompletion(res, order) == [i \in 1..Len(res) |-> res[order[i]]]

\* the tool node's update: the tool messages by request index, whatever the
\* order of completion
ToolNodeOutput(res, order) == [i \in 1..Len(res) |-> res[i]]

----------------------------------------------------------------------------
(* What the underlying model may answer *)

TurnTexts == {"a long enough answer", "unsafe"}

ToolCall(n, q, id) == [name |-> n, query |-> q, id |-> id]

CallSeqs(names, n) == UNION {[1..k -> names] : k \in 1..n}

WithIds(names, base) == [i \in 1..Len(names) |-> ToolCall(names[i], "query", base + i)]

RequestableTools ==
    IF tools = <<>> THEN {"tavily_search_results_json"}
    ELSE {tools[i].name : i \in 1..Len(tools)}

\* the model raises, answers with a text, or requests tools; base: the
\* tool-call requests issued so far, room: the requests it may still issue
ModelOutcomes(texts, base, room) ==
    {Raises}
    \cup {AIMessage(c, NoCalls) : c \in texts}
    \cup {AIMessage("", WithIds(f, base)) : f \in CallSeqs(RequestableTools, room)}

----------------------------------------------------------------------------
(* MCPConfig and MCPClientManager *)

\* the tools a multi-tool server may offer
ClientTools == {"read_file", "write_file"}

EmptyMap == [n \in {} |-> 0]

\* an entry of a file's mcpServers mapping; scope: the file it was read from
ClientEntry(scope, d, dt) == [scope |-> scope, disabled |-> d, disabledTools |-> dt]

ClientEntries(scope) == {ClientEntry(scope, d, dt) : d \in BOOLEAN, dt \in SUBSET ClientTools}

\* a config file: missing, unreadable (open or json.load raises), a JSON
\* object without the mcpServers key, or one with a mapping
ConfigFile(k, sv) == [kind |-> k, servers |-> sv]

ConfigFiles(scope) ==
    {ConfigFile(k, EmptyMap) : k \in {"missing", "unreadable", "nokey"}}
    \cup {ConfigFile("ok", sv) :
             sv \in UNION {[D -> ClientEntries(scope)] : D \in SUBSET ServerNames}}

\* _load_config_file: the parsed object, or None
load_config_file(f) ==
    IF f.kind \in {"missing", "unreadable"}
    THEN [none |-> TRUE, has_key |-> FALSE, servers |-> EmptyMap]
    ELSE [none |-> FALSE, has_key |-> f.kind = "ok", servers |-> f.servers]

\* dict.update: the keys of both, the values of b where both have the key
Update(a, b) ==
    [n \in (DOMAIN a) \cup (DOMAIN b) |-> IF n \in DOMAIN b THEN b[n] ELSE a[n]]

\* _load_config updating with the user file last
load_config_UserLast(user, workspace) ==
    LET u == load_config_file(user)
        w == load_config_file(workspace)
        c1 == IF ~w.none /\ w.has_key THEN Update(EmptyMap, w.servers) ELSE EmptyMap
    IN IF ~u.none /\ u.has_key THEN Update(c1, u.servers) ELSE c1

\* MCPConfig._load_config: the mcpServers mapping of the merged config
load_config(user, workspace) ==
    LET u == load_config_file(user)
        w == load_config_file(workspace)
        c1 == IF ~u.none /\ u.has_key THEN Update(EmptyMap, u.servers) ELSE EmptyMap
    IN IF ~w.none /\ w.has_key THEN Update(c1, w.servers) ELSE c1

\* MCPConfig.get_enabled_servers
get_enabled_servers(config) == {n \in DOMAIN config : ~config[n].disabled}

\* a connected server's toolkit: get_tools raises, or returns these tools
Toolkit(r, ts) == [raises |-> r, tools |-> ts]

Toolkits == {Toolkit(TRUE, {})} \cup {Toolkit(FALSE, ts) : ts \in SUBSET ClientTools}

\* get_all_tools without the filter of lines 78-81
get_all_tools_Unfiltered(config, toolkits) ==
    UNION {IF toolkits[sv].raises THEN {}
           ELSE {<<sv, t>> : t \in toolkits[sv].tools} : sv \in DOMAIN toolkits}

\* MCPClientManager.get_all_tools: the tools of every toolkit that are not in
\* the server's disabledTools; a server whose get_tools raises gives none
get_all_tools(config, toolkits) ==
    UNION {IF toolkits[sv].raises THEN {}
           ELSE {<<sv, t>> : t \in toolkits[sv].tools \ config[sv].disabledTools} :
           sv \in DOMAIN toolkits}

\* how one connect_to_server goes: the step that raises, or "ok"
ConnectOutcomes ==
    {"StdioServerParameters", "stdio_client", "initialize", "MCPToolkit", "ok"}

\* the manager's two dicts, by their keys
Manager(cfg, ss, tks) == [config |-> cfg, active_sessions |-> ss, toolkits |-> tks]

\* connect_to_server(server_name, server_config): the session is stored once
\* initialized (line 42), the toolkit once built (line 46); every exception
\* is caught and None returned.  toolkit: a toolkit was returned
connect_to_server(m, server_name, outcome) ==
    [manager |->
        Manager(m.config,
                IF outcome \in {"MCPToolkit", "ok"}
                THEN m.active_sessions \cup {server_name} ELSE m.active_sessions,
                IF outcome = "ok" THEN m.toolkits \cup {server_name} ELSE m.toolkits),
     toolkit |-> outcome = "ok",
     raised |-> FALSE]

\* the loop of connect_all_servers giving up at the first server that fails
RECURSIVE ConnectEach_StopsAtFailure(_, _, _, _, _)
ConnectEach_StopsAtFailure(m, todo, f, attempted, connected) ==
    IF todo = {}
    THEN [manager |-> m, attempted |-> attempted, returned |-> connected, raised |-> FALSE]
    ELSE LET server_name == CHOOSE n \in todo : TRUE
             r == connect_to_server(m, server_name, f[server_name])
         IN IF ~r.toolkit
            THEN [manager |-> r.manager, attempted |-> Append(attempted, server_name),
                  returned |-> connected, raised |-> FALSE]
            ELSE ConnectEach_StopsAtFailure(r.manager, todo \ {server_name}, f,
                                            Append(attempted, server_name),
                                            connected \cup {server_name})

\* lines 60-63 of connect_all_servers: each server is tried in turn and kept
\* when a toolkit came back
RECURSIVE ConnectEach(_, _, _, _, _)
ConnectEach(m, todo, f, attempted, connected) ==
    IF todo = {}
    THEN [manager |-> m, attempted |-> attempted, returned |-> connected, raised |-> FALSE]
    ELSE LET server_name == CHOOSE n \in todo : TRUE
             r == connect_to_server(m, server_name, f[server_name])
         IN ConnectEach(r.manager, todo \ {server_name}, f,
                        Append(attempted, server_name),
                        IF r.toolkit THEN connected \cup {server_name} ELSE connected)

\* connect_all_servers(); f: how the connection to each enabled server goes
connect_all_servers(m, f) ==
    ConnectEach(m, get_enabled_servers(m.config), f, <<>>, {})

\* disconnect_all without the try/except around session.close()
disconnect_all_NoExcept(m, close_raises) ==
    IF m.active_sessions \cap close_raises # {}
    THEN [manager |-> m, raised |-> TRUE]
    ELSE [manager |-> Manager(m.config, {}, {}), raised |-> FALSE]

\* disconnect_all(): every session is closed, an error of close is caught,
\* and both dicts are cleared
disconnect_all(m, close_raises) ==
    [manager |-> Manager(m.config, {}, {}), raised |-> FALSE]

\* no MCPClientManager has been constructed
NoClient == [stage |-> "none"]

ClientState(st, fs, cfg, tks, ts) ==
    [stage |-> st, files |-> fs, config |-> cfg, toolkits |-> tks, all_tools |-> ts]

----------------------------------------------------------------------------
(* The environment of a tool's process: lines 27-29 and 46 of MCPTool._run *)

EnvKeys == {"PATH", "HOME", "BRAVE_API_KEY"}
EnvValues == {"ambient value", "descriptor value"}

\* environments: mappings from some of the keys to values
Envs == UNION {[D -> EnvValues] : D \in SUBSET EnvKeys}

\* _run updating os.environ itself instead of a copy of it
run_env_NoCopy(ambient, mcp_env) ==
    [env |-> Update(ambient, mcp_env), environ |-> Update(ambient, mcp_env)]

\* env = os.environ.copy(); env.update(self.mcp_env): env, the environment
\* given to subprocess.run; environ, os.environ afterwards
run_env(ambient, mcp_env) ==
    [env |-> Update(ambient, mcp_env), environ |-> ambient]

----------------------------------------------------------------------------
(* State machine *)

NoCall == [op |-> "none"]

\* the guardrails configurations a process starts with: disabled, or enabled
\* with every guard built
GuardConfigs == {<<FALSE, {}>>, <<TRUE, GuardNames>>}

\* log_user_interaction has not been called
NoTelemetry == [logged |-> FALSE, escaped |-> {}, traces |-> 0, generations |-> 0]

Idle ==
    /\ environ = EmptyMap /\ client = NoClient /\ sink = "absent" /\ telemetry = NoTelemetry
    /\ usecase = "none" /\ mcp_config = NoConfig /\ graph = "none"
    /\ setup_error = "none" /\ tools = <<>> /\ node = "START" /\ raised = FALSE
    /\ messages = <<>> /\ pending = <<>> /\ results = <<>> /\ finish_order = <<>>
    /\ cycles = 0 /\ tool_runs = <<>>
    /\ steps = <<>> /\ last = NoCall

Init ==
    /\ \E c \in GuardConfigs : gr_enabled = c[1] /\ gr_guards = c[2]
    /\ Idle

Enabled(n) == ServerEntry(n, FALSE, "uvx", TRUE)
Disabled(n) == ServerEntry(n, TRUE, "uvx", TRUE)

\* the configurations given to setup_graph: none, no mcpServers key, an empty
\* mapping, servers all disabled, and mappings with one or two enabled servers
Configs ==
    {NoConfig,
     McpConfig(TRUE, FALSE, <<>>),
     McpConfig(TRUE, TRUE, <<>>),
     McpConfig(TRUE, TRUE, <<Disabled("filesystem")>>),
     McpConfig(TRUE, TRUE, <<Disabled("filesystem"), Disabled("sqlite")>>),
     McpConfig(TRUE, TRUE, <<Enabled("filesystem")>>),
     McpConfig(TRUE, TRUE, <<Disabled("filesystem"), Enabled("sqlite")>>),
     McpConfig(TRUE, TRUE, <<Enabled("filesystem"), Enabled("sqlite")>>)}

\* GraphBuilder(model).setup_graph(usecase, mcp_config=...), as main.py calls
\* it once per run before any turn is streamed
SetupGraph ==
    /\ usecase = "none"
    /\ \E uc \in UseCases \cup UnknownUseCases, cfg \in Configs, key \in BOOLEAN :
          LET r == setup_graph(uc, IF uc = "MCP Chatbot" THEN cfg ELSE NoConfig, key) IN
          /\ usecase' = uc
          /\ mcp_config' = (IF uc = "MCP Chatbot" THEN cfg ELSE NoConfig)
          /\ graph' = r.graph
          /\ setup_error' = r.error
          /\ tools' = r.tools
    /\ UNCHANGED <<environ, client, sink, telemetry, gr_enabled, gr_guards, node, raised, messages, pending, results,
                   finish_order, cycles, tool_runs, steps, last>>

\* graph.stream(initial_state) of display_result_on_ui: the turn starts with
\* the user's message and the edge (START, "chatbot")
Stream ==
    /\ graph # "none" /\ node = "START"
    /\ \E user_message \in UserTexts :
          messages' = <<HumanMessage(user_message)>>
    /\ node' = "chatbot"
    /\ UNCHANGED <<environ, client, sink, telemetry, gr_enabled, gr_guards, usecase, mcp_config, graph, setup_error, tools,
                   raised, pending, results, finish_order, cycles, tool_runs, steps,
                   last>>

\* the model a chatbot node invokes: GraphBuilder(model) hands the model of
\* get_llm_model(usecase) to the node, and the nodes of the tool-augmented
\* graphs bind the tools to it first
NodeLLM ==
    IF graph = "tools" THEN bind_tools(get_llm_model(usecase))
    ELSE get_llm_model(usecase)

\* llm.invoke(state["messages"]) on the model get_llm_model returned: the
\* guardrails wrapper when guardrails are enabled, else the model itself
ChainInvoke(msgs, in_raise, out_raise, m1, m2) ==
    IF NodeLLM.kind = "guardrails"
    THEN Guardrails_invoke(ListInput(msgs), NodeLLM.usecase, in_raise, out_raise, m1, m2)
    ELSE Raw_invoke(ListInput(msgs), m1)

\* one execution of a chatbot node: the chain is invoked on the conversation
\* and its result is appended; an exception aborts the turn
ReasoningStep ==
    /\ node = "chatbot" /\ ~raised
    /\ \E m1 \in ModelOutcomes(TurnTexts, Len(tool_runs), MaxRequests - Len(tool_runs)),
          in_raise \in (IF NodeLLM.kind = "guardrails" THEN SUBSET {1} ELSE {{}}),
          out_raise \in (IF NodeLLM.kind = "guardrails" THEN BOOLEAN ELSE {FALSE}) :
       \E m2 \in (IF m1 = Raises /\ NodeLLM.kind = "guardrails"
                  THEN ModelOutcomes(TurnTexts, Len(tool_runs), MaxRequests - Len(tool_runs))
                  ELSE {Raises}) :
       \E res \in {ChainInvoke(messages, in_raise, out_raise, m1, m2)} :
          LET msgs == IF res.raised THEN res.input.msgs
                      ELSE add_messages(res.input.msgs, <<res.ret>>)
              next == IF res.raised THEN node ELSE AfterChatbot(graph, msgs)
              n == IF res.raised THEN 0 ELSE Len(res.ret.tool_calls)
          IN /\ last' = [op |-> "invoke", uc |-> usecase, input |-> ListInput(messages),
                         res |-> res]
             /\ raised' = res.raised
             /\ messages' = msgs
             /\ node' = next
             /\ tool_runs' = tool_runs \o [i \in 1..n |-> 0]
             /\ pending' = (IF next = "tools" THEN [i \in 1..n |-> "idle"] ELSE <<>>)
             /\ results' = (IF next = "tools" THEN [i \in 1..n |-> NoMessage] ELSE <<>>)
    /\ finish_order' = <<>>
    /\ steps' = Append(steps, "chatbot")
    /\ UNCHANGED <<environ, client, sink, telemetry, gr_enabled, gr_guards, usecase, mcp_config, graph, setup_error, tools,
                   cycles>>

\* BasicChatbotNode.process
BasicChatbotNode_process == usecase = "Basic Chatbot" /\ ReasoningStep

\* the chatbot_node function of MCPChatbotNode.create_chatbot
MCPChatbotNode_chatbot_node == usecase = "MCP Chatbot" /\ ReasoningStep

\* the chatbot node of ChatbotWithToolNode.create_chatbot
ChatbotWithToolNode_chatbot_node ==
    usecase \in {"Chatbot with Tool", "AI News"} /\ ReasoningStep

\* the tool node invokes the tool of request i; invocations are independent
\* and complete in any order
RunTool ==
    /\ node = "tools" /\ ~raised
    /\ \E i \in 1..Len(pending) :
          /\ pending[i] = "idle"
          /\ LET req == Requests(messages)[i] IN
             /\ \E out \in ToolReturns(req.name) :
                   results' = [results EXCEPT ![i] = ToolMessage(out, req.id)]
             /\ tool_runs' = [tool_runs EXCEPT ![req.id] = @ + 1]
          /\ pending' = [pending EXCEPT ![i] = "done"]
          /\ finish_order' = Append(finish_order, i)
    /\ UNCHANGED <<environ, client, sink, telemetry, gr_enabled, gr_guards, usecase, mcp_config, graph, setup_error, tools,
                   node, raised, messages, cycles, steps, last>>

\* the tool node returns when every request is done; its tool messages are
\* appended and the edge ("tools", "chatbot") is taken
ToolNodeReturn ==
    /\ node = "tools" /\ ~raised
    /\ \A i \in 1..Len(pending) : pending[i] = "done"
    /\ messages' = add_messages(messages, ToolNodeOutput(results, finish_order))
    /\ node' = AfterTools
    /\ cycles' = cycles + 1
    /\ steps' = Append(steps, "tools")
    /\ pending' = <<>>
    /\ results' = <<>>
    /\ UNCHANGED <<environ, client, sink, telemetry, gr_enabled, gr_guards, usecase, mcp_config, graph, setup_error, tools,
                   raised, finish_order, tool_runs, last>>

Next ==
    \/ SetupGraph
    \/ Stream
    \/ BasicChatbotNode_process
    \/ MCPChatbotNode_chatbot_node
    \/ ChatbotWithToolNode_chatbot_node
    \/ RunTool
    \/ ToolNodeReturn

Spec == Init /\ [][Next]_vars

----------------------------------------------------------------------------
(* Telemetry: LangfuseManager and log_user_interaction, called by the
   display loop for the turn's final answer *)

\* the sink: no keys configured; keys configured but the connection test of
\* startup failed; connected but every later call raises; connected, traces
\* are created but recording a generation raises; working
Sinks == {"absent", "unreachable", "failing", "flaky", "working"}

\* LangfuseManager.is_enabled after _initialize_langfuse
langfuse_is_enabled(s) == s \in {"failing", "flaky", "working"}

\* create_trace: the trace, or None when disabled or when the sink raised
create_trace(s) ==
    IF ~langfuse_is_enabled(s) THEN [raised |-> FALSE, trace |-> "none"]
    ELSE IF s = "failing" THEN [raised |-> FALSE, trace |-> "none"]
    ELSE [raised |-> FALSE, trace |-> "trace"]

\* log_generation without its try/except
log_generation_NoExcept(s) ==
    IF ~langfuse_is_enabled(s) THEN [raised |-> FALSE, stored |-> FALSE]
    ELSE IF s \in {"failing", "flaky"} THEN [raised |-> TRUE, stored |-> FALSE]
    ELSE [raised |-> FALSE, stored |-> TRUE]

\* log_generation: records the generation unless the sink raises
log_generation(s) ==
    IF ~langfuse_is_enabled(s) THEN [raised |-> FALSE, stored |-> FALSE]
    ELSE IF s \in {"failing", "flaky"} THEN [raised |-> FALSE, stored |-> FALSE]
    ELSE [raised |-> FALSE, stored |-> TRUE]

\* log_user_interaction: raised, whether an exception left it; escaped, the
\* functions it called that let an exception through to it
log_user_interaction(s) ==
    IF ~langfuse_is_enabled(s)
    THEN [raised |-> FALSE, escaped |-> {}, traces |-> 0, generations |-> 0]
    ELSE LET t == create_trace(s) IN
         IF t.raised
         THEN [raised |-> FALSE, escaped |-> {"create_trace"}, traces |-> 0,
               generations |-> 0]
         ELSE IF t.trace = "none"
         THEN [raised |-> FALSE, escaped |-> {}, traces |-> 0, generations |-> 0]
         ELSE LET g == log_generation(s) IN
              [raised |-> FALSE,
               escaped |-> IF g.raised THEN {"log_generation"} ELSE {},
               traces |-> 1,
               generations |-> IF g.stored THEN 1 ELSE 0]

\* the process starts with any sink; guardrails as in Init
TeleInit ==
    /\ environ = EmptyMap /\ client = NoClient /\ sink \in Sinks /\ telemetry = NoTelemetry
    /\ \E c \in GuardConfigs : gr_enabled = c[1] /\ gr_guards = c[2]
    /\ usecase = "none" /\ mcp_config = NoConfig /\ graph = "none"
    /\ setup_error = "none" /\ tools = <<>> /\ node = "START" /\ raised = FALSE
    /\ messages = <<>> /\ pending = <<>> /\ results = <<>> /\ finish_order = <<>>
    /\ cycles = 0 /\ tool_runs = <<>> /\ steps = <<>> /\ last = NoCall

\* display_result_on_ui on the event of the final answer: the message is
\* written and log_user_interaction is called inside try/except
DisplayFinalAnswer ==
    /\ node = "END" /\ ~raised /\ ~telemetry.logged
    /\ (graph = "tools" => Len(messages[Len(messages)].tool_calls) = 0)
    /\ \E r \in {log_user_interaction(sink)} :
          /\ telemetry' = [logged |-> TRUE,
                           escaped |-> r.escaped \cup
                              (IF r.raised THEN {"log_user_interaction"} ELSE {}),
                           traces |-> r.traces, generations |-> r.generations]
          /\ raised' = FALSE
    /\ UNCHANGED <<environ, client, sink, gr_enabled, gr_guards, usecase, mcp_config, graph, setup_error,
                   tools, node, messages, pending, results, finish_order, cycles,
                   tool_runs, steps, last>>

TeleNext ==
    \/ SetupGraph
    \/ Stream
    \/ BasicChatbotNode_process
    \/ MCPChatbotNode_chatbot_node
    \/ ChatbotWithToolNode_chatbot_node
    \/ RunTool
    \/ ToolNodeReturn
    \/ DisplayFinalAnswer

TeleSpec == TeleInit /\ [][TeleNext]_vars

----------------------------------------------------------------------------
(* Direct calls of the wrappers, one at a time, on inputs of every shape *)

\* guardrails configurations: disabled; enabled with every guard built, with
\* the input guard missing, with the output guards missing, with none built
ChainGuardConfigs ==
    {<<FALSE, {}>>, <<TRUE, GuardNames>>, <<TRUE, GuardNames \ {"input_safety"}>>,
     <<TRUE, {"input_safety", "structured_output"}>>, <<TRUE, {}>>}

ChainInit ==
    /\ \E c \in ChainGuardConfigs : gr_enabled = c[1] /\ gr_guards = c[2]
    /\ Idle

ChainMessages ==
    {HumanMessage(t) : t \in UserTexts} \cup {AIMessage("a long enough answer", NoCalls)}

ChainInputs ==
    {StrInput(t) : t \in UserTexts}
    \cup {ListInput(ms) : ms \in UNION {[1..k -> ChainMessages] : k \in 0..MaxInputLen}}

ChainUseCases == {"Basic Chatbot", "AI News", "MCP Chatbot"}

\* what the underlying model may do on one call
ChainOutcomes ==
    {Raises}
    \cup {AIMessage(c, NoCalls) : c \in OutputTexts}
    \cup {AIMessage(c, <<ToolCall("tavily_search_results_json", "query", 1)>>) :
            c \in {"", "unsafe"}}

SecondOutcomes(m1) == IF m1 = Raises THEN ChainOutcomes ELSE {Raises}

ChainFrame ==
    UNCHANGED <<environ, client, sink, telemetry, gr_enabled, gr_guards, usecase, mcp_config, graph, setup_error, tools,
                node, raised, messages, pending, results, finish_order, cycles,
                tool_runs, steps>>

\* GuardrailsLLMWrapper(llm, uc).invoke(input)
CallInvoke ==
    /\ last.op = "none"
    /\ \E input \in ChainInputs, uc \in ChainUseCases,
          in_raise \in SUBSET (1..MaxInputLen), out_raise \in BOOLEAN,
          m1 \in ChainOutcomes :
       \E m2 \in SecondOutcomes(m1) :
       \E res \in {Guardrails_invoke(input, uc, in_raise, out_raise, m1, m2)} :
          last' = [op |-> "invoke", uc |-> uc, input |-> input,
                   outs |-> SubSeq(<<m1, m2>>, 1, Len(res.calls)), res |-> res]
    /\ ChainFrame

\* GuardrailsLLMWrapper(llm, uc)._generate(messages)
CallGenerate ==
    /\ last.op = "none"
    /\ \E input \in {i \in ChainInputs : i.kind = "list"}, uc \in ChainUseCases,
          in_raise \in SUBSET (1..MaxInputLen), out_raise \in BOOLEAN,
          m1 \in ChainOutcomes :
       \E m2 \in SecondOutcomes(m1) :
          last' = [op |-> "_generate", uc |-> uc, input |-> input,
                   res |-> Guardrails_generate(input.msgs, uc, in_raise, out_raise, m1, m2)]
    /\ ChainFrame

\* MemoryLLMWrapper(llm, memory_system, memory_tool).invoke(input), the
\* wrapped llm being the bare model
CallMemoryInvoke ==
    /\ last.op = "none" /\ create_guardrails_llm = "raw"
    /\ \E input \in ChainInputs, mem \in MemoryStores, m1 \in ChainOutcomes :
       \E m2 \in SecondOutcomes(m1) :
       \E m3 \in (IF {m1, m2} = {Raises} THEN ChainOutcomes ELSE {Raises}) :
          last' = [op |-> "memory_invoke", uc |-> "none", input |-> input,
                   outs |-> <<m1, m2, m3>>,
                   res |-> Memory_invoke(input, mem, m1, m2, m3)]
    /\ ChainFrame

\* the memory stores of the composed chain: with or without a memory tool
\* whose execute raises, finds nothing or finds memories
ChainStores == {mem \in MemoryStores : ~mem.has_search /\ mem.record = "ok"}

\* wrap_llm_with_memori(GroqLLM(...).get_llm_model(uc)).invoke(messages),
\* guardrails being enabled; the input guard works or raises throughout
CallMemoryChainInvoke ==
    /\ last.op = "none" /\ create_guardrails_llm = "guardrails"
    /\ \E input \in {i \in ChainInputs : i.kind = "list"},
          uc \in {"Basic Chatbot", "MCP Chatbot"},
          mem \in ChainStores, in_raise \in {{}, 1..(MaxInputLen + 1)}, out_raise \in BOOLEAN,
          m1 \in ChainOutcomes :
       \E m2 \in SecondOutcomes(m1) :
       \E m3 \in (IF {m1, m2} = {Raises} THEN ChainOutcomes ELSE {Raises}) :
       \E m4 \in (IF {m1, m2, m3} = {Raises} THEN ChainOutcomes ELSE {Raises}) :
       \E m5 \in (IF {m1, m2, m3, m4} = {Raises} THEN ChainOutcomes ELSE {Raises}) :
          last' = [op |-> "memory_chain_invoke", uc |-> uc, input |-> input,
                   res |-> Memory_invoke_wrapped(input, mem, uc, in_raise, out_raise,
                                                 m1, m2, m3, m4, m5)]
    /\ ChainFrame

\* the call is over; the next one starts afresh
CallReturn ==
    /\ last.op # "none" /\ node = "START" /\ usecase = "none"
    /\ last' = NoCall
    /\ ChainFrame

ChainNext ==
    \/ CallInvoke
    \/ CallGenerate
    \/ CallMemoryInvoke
    \/ CallMemoryChainInvoke
    \/ CallReturn

ChainSpec == ChainInit /\ [][ChainNext]_vars

----------------------------------------------------------------------------
(* Direct calls of create_mcp_tools_from_config on mappings of every shape *)

RegServerNames == ServerNames \cup {"github"}

\* the entries of a mapping: disabled or not, with a command, an empty
\* command or none, with well-typed or ill-typed args/env
RegEntries ==
    {ServerEntry(n, d, c, w) :
        n \in RegServerNames, d \in BOOLEAN, c \in {"uvx", "", "absent"}, w \in BOOLEAN}

\* mappings: their keys are distinct
RegServers ==
    {sv \in UNION {[1..k -> RegEntries] : k \in 0..MaxServers} :
        \A i, j \in 1..Len(sv) : i # j => sv[i].name # sv[j].name}

RegConfigs == {McpConfig(TRUE, TRUE, sv) : sv \in RegServers} \cup {McpConfig(TRUE, FALSE, <<>>)}

RegInit ==
    /\ environ = EmptyMap /\ client = NoClient /\ sink = "absent" /\ telemetry = NoTelemetry
    /\ gr_enabled = FALSE /\ gr_guards = {}
    /\ usecase = "none" /\ mcp_config \in RegConfigs /\ graph = "none"
    /\ setup_error = "none" /\ tools = <<>> /\ node = "START" /\ raised = FALSE
    /\ messages = <<>> /\ pending = <<>> /\ results = <<>> /\ finish_order = <<>>
    /\ cycles = 0 /\ tool_runs = <<>> /\ steps = <<>> /\ last = NoCall

\* create_mcp_tools_from_config(mcp_config): tools holds what the call
\* returned, last what the first call returned and how many calls were made
CallCreateTools ==
    /\ (IF last.op = "none" THEN 0 ELSE last.calls) < MaxRegistrations
    /\ tools' = create_mcp_tools_from_config(mcp_config)
    /\ setup_error' = (IF create_mcp_tools_error(mcp_config)
                       THEN "Error creating MCP tools" ELSE "none")
    /\ last' = [op |-> "create_mcp_tools",
                calls |-> (IF last.op = "none" THEN 1 ELSE last.calls + 1),
                first |-> (IF last.op = "none" THEN tools' ELSE last.first),
                raised |-> FALSE]
    /\ UNCHANGED <<environ, client, sink, telemetry, gr_enabled, gr_guards, usecase, mcp_config, graph, node, raised,
                   messages, pending, results, finish_order, cycles, tool_runs, steps>>

RegNext == CallCreateTools

RegSpec == RegInit /\ [][RegNext]_vars

----------------------------------------------------------------------------
(* Direct calls of MCPTool._run, the process of each followed second by
   second.  pending[i] is the process of invocation i and results[i] the
   string _run returned, "none" while it has not returned. *)

\* _run with a retry after a failed attempt: the first call and one more
RunAttempts_RetryOnce == 1 + 1

\* how many times one call of _run calls subprocess.run: the call of lines
\* 41-48 is in no loop
RunAttempts == 1

\* an invocation of _run: its process, the seconds it has run, how it ended,
\* and the calls of subprocess.run made so far
Process(p, e, o, n) == [proc |-> p, elapsed |-> e, outcome |-> o, spawns |-> n]

ToolInit ==
    /\ environ = EmptyMap /\ client = NoClient /\ sink = "absent" /\ telemetry = NoTelemetry
    /\ gr_enabled = FALSE /\ gr_guards = {}
    /\ usecase = "none" /\ graph = "none" /\ setup_error = "none"
    /\ mcp_config = McpConfig(TRUE, TRUE, <<Enabled("filesystem")>>)
    /\ tools = create_mcp_tools_from_config(mcp_config)
    /\ node = "START" /\ raised = FALSE
    /\ messages = <<>> /\ pending = <<>> /\ results = <<>> /\ finish_order = <<>>
    /\ cycles = 0 /\ tool_runs = <<>> /\ steps = <<>> /\ last = NoCall

ToolFrame ==
    UNCHANGED <<environ, client, sink, telemetry, gr_enabled, gr_guards, usecase, mcp_config, graph, setup_error, tools,
                node, raised, messages, finish_order, cycles, tool_runs, steps, last>>

\* _run is entered and subprocess.run starts the process, or fails to
\* (the exception is caught at line 55)
RunCall ==
    /\ Len(pending) < MaxRuns
    /\ \E spawned \in BOOLEAN :
          IF spawned
          THEN /\ pending' = Append(pending, Process("running", 0, "none", 1))
               /\ results' = Append(results, "none")
          ELSE /\ pending' = Append(pending, Process("none", 0, "spawn_error", RunAttempts))
               /\ results' = Append(results, MCPTool_run("spawn_error"))
    /\ ToolFrame

\* the process exits by itself and _run returns by lines 50-53
ProcExits ==
    /\ \E i \in 1..Len(pending), code \in {"exit0", "nonzero"} :
          /\ pending[i].proc = "running"
          /\ IF code = "nonzero" /\ pending[i].spawns < RunAttempts
             THEN /\ pending' = [pending EXCEPT ![i] = Process("running", 0, "none", @.spawns + 1)]
                  /\ UNCHANGED results
             ELSE /\ pending' = [pending EXCEPT
                                   ![i] = Process("exited", @.elapsed, code, @.spawns)]
                  /\ results' = [results EXCEPT ![i] = MCPTool_run(code)]
    /\ ToolFrame

\* the deadline is reached: subprocess.run kills the process and raises
\* TimeoutExpired, caught at line 55
TimeoutExpires ==
    /\ \E i \in 1..Len(pending) :
          /\ pending[i].proc = "running" /\ pending[i].elapsed >= RunTimeout
          /\ IF pending[i].spawns < RunAttempts
             THEN /\ pending' = [pending EXCEPT ![i] = Process("running", 0, "none", @.spawns + 1)]
                  /\ UNCHANGED results
             ELSE /\ pending' = [pending EXCEPT
                                   ![i] = Process("killed", @.elapsed, "timeout", @.spawns)]
                  /\ results' = [results EXCEPT ![i] = MCPTool_run("timeout")]
    /\ ToolFrame

\* a second passes for every running process; none passes a deadline
Tick ==
    /\ \E i \in 1..Len(pending) : pending[i].proc = "running"
    /\ \A i \in 1..Len(pending) :
          pending[i].proc = "running" =>
             pending[i].elapsed < RunTimeout /\ pending[i].elapsed <= TimeoutSeconds
    /\ pending' = [i \in 1..Len(pending) |->
                      IF pending[i].proc = "running"
                      THEN [pending[i] EXCEPT !.elapsed = @ + 1] ELSE pending[i]]
    /\ UNCHANGED results
    /\ ToolFrame

ToolNext == RunCall \/ ProcExits \/ TimeoutExpires \/ Tick

ToolSpec == ToolInit /\ [][ToolNext]_vars

----------------------------------------------------------------------------
(* MCPClientManager: construction, connection, listing of the tools *)

ClientInit == gr_enabled = FALSE /\ gr_guards = {} /\ Idle

ClientFrame ==
    UNCHANGED <<environ, sink, telemetry, gr_enabled, gr_guards, usecase, mcp_config, graph,
                setup_error, tools, node, raised, messages, pending, results,
                finish_order, cycles, tool_runs, steps, last>>

\* MCPClientManager(): MCPConfig() loads the user file and the workspace file
NewClient ==
    /\ client.stage = "none"
    /\ \E user \in ConfigFiles("user"), workspace \in ConfigFiles("workspace") :
          client' = ClientState("loaded", <<user, workspace>>,
                                load_config(user, workspace), EmptyMap, {})
    /\ ClientFrame

\* connect_all_servers: every enabled server is tried; those that connect get
\* a toolkit
ConnectAllServers ==
    /\ client.stage = "loaded"
    /\ \E connected \in SUBSET get_enabled_servers(client.config) :
       \E tks \in [connected -> Toolkits] :
          client' = ClientState("connected", <<>>, client.config, tks, {})
    /\ ClientFrame

\* get_all_tools()
GetAllTools ==
    /\ client.stage = "connected"
    /\ client' = ClientState("listed", <<>>, client.config, client.toolkits,
                             get_all_tools(client.config, client.toolkits))
    /\ ClientFrame

ClientNext == NewClient \/ ConnectAllServers \/ GetAllTools

ClientSpec == ClientInit /\ [][ClientNext]_vars

----------------------------------------------------------------------------
(* Sequences of connect and disconnect calls on one MCPClientManager *)

\* the merged configurations: each server absent, enabled or disabled
ManagerConfigs ==
    UNION {[D -> {ClientEntry("workspace", d, {}) : d \in BOOLEAN}] : D \in SUBSET ServerNames}

\* the manager and what its last call did
ManagerState(m, call) ==
    [stage |-> "manager", config |-> m.config, active_sessions |-> m.active_sessions,
     toolkits |-> m.toolkits, call |-> call]

ManagerInit == gr_enabled = FALSE /\ gr_guards = {} /\ Idle

\* MCPClientManager()
NewManager ==
    /\ client.stage = "none"
    /\ \E cfg \in ManagerConfigs :
          client' = ManagerState(Manager(cfg, {}, {}), [op |-> "__init__"])
    /\ ClientFrame

\* connect_to_server(server_name, server_config), for a server of the
\* configuration or any other
CallConnectToServer ==
    /\ client.stage = "manager"
    /\ \E server_name \in ServerNames, outcome \in ConnectOutcomes :
       \E r \in {connect_to_server(client, server_name, outcome)} :
          client' = ManagerState(r.manager,
                                 [op |-> "connect_to_server", server |-> server_name,
                                  outcome |-> outcome, toolkit |-> r.toolkit,
                                  raised |-> r.raised])
    /\ ClientFrame

\* connect_all_servers()
CallConnectAllServers ==
    /\ client.stage = "manager"
    /\ \E f \in [get_enabled_servers(client.config) -> ConnectOutcomes] :
       \E r \in {connect_all_servers(client, f)} :
          client' = ManagerState(r.manager,
                                 [op |-> "connect_all_servers", outcomes |-> f,
                                  attempted |-> r.attempted, returned |-> r.returned,
                                  raised |-> r.raised])
    /\ ClientFrame

\* disconnect_all(); close_raises: the sessions whose close raises
CallDisconnectAll ==
    /\ client.stage = "manager"
    /\ \E close_raises \in SUBSET ServerNames :
       \E r \in {disconnect_all(client, close_raises)} :
          client' = ManagerState(r.manager,
                                 [op |-> "disconnect_all",
                                  close_raised |-> client.active_sessions \cap close_raises,
                                  raised |-> r.raised])
    /\ ClientFrame

ManagerNext ==
    \/ NewManager
    \/ CallConnectToServer
    \/ CallConnectAllServers
    \/ CallDisconnectAll

ManagerSpec == ManagerInit /\ [][ManagerNext]_vars

----------------------------------------------------------------------------
(* Invocations of MCPTool._run in a process with every ambient environment *)

EnvInit ==
    /\ environ \in Envs
    /\ gr_enabled = FALSE /\ gr_guards = {}
    /\ client = NoClient /\ sink = "absent" /\ telemetry = NoTelemetry
    /\ usecase = "none" /\ mcp_config = NoConfig /\ graph = "none"
    /\ setup_error = "none" /\ tools = <<>> /\ node = "START" /\ raised = FALSE
    /\ messages = <<>> /\ pending = <<>> /\ results = <<>> /\ finish_order = <<>>
    /\ cycles = 0 /\ tool_runs = <<>> /\ steps = <<>> /\ last = NoCall

\* one invocation of a tool whose descriptor has the environment mcp_env
RunWithEnv ==
    /\ (IF last.op = "none" THEN 0 ELSE last.calls) < MaxRuns
    /\ \E mcp_env \in Envs :
       \E r \in {run_env(environ, mcp_env)} :
          /\ environ' = r.environ
          /\ last' = [op |-> "_run",
                      calls |-> (IF last.op = "none" THEN 1 ELSE last.calls + 1),
                      ambient |-> environ, mcp_env |-> mcp_env, env |-> r.env]
    /\ UNCHANGED <<client, sink, telemetry, gr_enabled, gr_guards, usecase, mcp_config,
                   graph, setup_error, tools, node, raised, messages, pending, results,
                   finish_order, cycles, tool_runs, steps>>

EnvNext == RunWithEnv

EnvSpec == EnvInit /\ [][EnvNext]_vars

----------------------------------------------------------------------------
(* Initialization of the process-wide services, with a failure at any step *)

\* the steps of _initialize_langfuse that can raise
LangfuseSteps == {"Langfuse", "CallbackHandler", "auth_check"}

\* LangfuseManager._initialize_langfuse: the manager's two fields afterwards
\* (TRUE: set, FALSE: None).  Without both keys it returns at once; an error
\* of either constructor reaches the outer except, an error of auth_check the
\* inner one, and both handlers unset both fields.
initialize_langfuse(secret_key, public_key, fail) ==
    IF ~secret_key \/ ~public_key
    THEN [langfuse |-> FALSE, callback_handler |-> FALSE, raised |-> FALSE]
    ELSE IF fail \in LangfuseSteps
    THEN [langfuse |-> FALSE, callback_handler |-> FALSE, raised |-> FALSE]
    ELSE [langfuse |-> TRUE, callback_handler |-> TRUE, raised |-> FALSE]

\* LangfuseManager.is_enabled
LangfuseManager_is_enabled(m) == m.langfuse /\ m.callback_handler

\* GuardrailsConfig.__init__ and _initialize_guards: every _create_* method
\* catches its own errors and returns None, which is stored in guards; the
\* except clause of _initialize_guards is reached by none of them
initialize_guards(env_enabled, failed) ==
    IF ~env_enabled
    THEN [enabled |-> FALSE, guards |-> {}, raised |-> FALSE]
    ELSE [enabled |-> TRUE, guards |-> GuardNames \ failed, raised |-> FALSE]

\* the steps of init_memori that can raise
MemoriSteps == {"Memori", "enable", "create_memory_tool"}

\* init_memori: TRUE when it returns a memory system, FALSE for (None, None)
init_memori(installed, fail) == installed /\ fail \notin MemoriSteps

\* wrap_llm_with_memori: the kind of model it returns
wrap_llm_with_memori(installed, fail) ==
    IF ~init_memori(installed, fail) THEN "original" ELSE "memory"

Initialized(svc) == \E i \in DOMAIN steps : steps[i].svc = svc

InitFrame ==
    UNCHANGED <<environ, client, sink, telemetry, usecase, mcp_config, graph, setup_error,
                tools, node, raised, messages, pending, results, finish_order, cycles,
                tool_runs, last>>

\* LangfuseManager()
InitLangfuse ==
    /\ ~Initialized("langfuse")
    /\ \E secret_key \in BOOLEAN, public_key \in BOOLEAN, fail \in LangfuseSteps \cup {"none"} :
       \E m \in {initialize_langfuse(secret_key, public_key, fail)} :
          steps' = Append(steps, [svc |-> "langfuse",
                                  failed |-> secret_key /\ public_key /\ fail # "none",
                                  raised |-> m.raised, langfuse |-> m.langfuse,
                                  callback_handler |-> m.callback_handler])
    /\ UNCHANGED <<gr_enabled, gr_guards>>
    /\ InitFrame

\* GuardrailsConfig()
InitGuards ==
    /\ ~Initialized("guardrails")
    /\ \E env_enabled \in BOOLEAN, failed \in SUBSET GuardNames :
       \E c \in {initialize_guards(env_enabled, failed)} :
          /\ gr_enabled' = c.enabled
          /\ gr_guards' = c.guards
          /\ steps' = Append(steps, [svc |-> "guardrails",
                                     failed |-> env_enabled /\ failed # {},
                                     raised |-> c.raised])
    /\ InitFrame

\* wrap_llm_with_memori(llm)
WrapLLMWithMemori ==
    /\ ~Initialized("memori")
    /\ \E installed \in BOOLEAN, fail \in MemoriSteps \cup {"none"} :
          steps' = Append(steps, [svc |-> "memori",
                                  failed |-> ~installed \/ fail # "none",
                                  raised |-> FALSE,
                                  llm |-> wrap_llm_with_memori(installed, fail)])
    /\ UNCHANGED <<gr_enabled, gr_guards>>
    /\ InitFrame

InitInit == gr_enabled = FALSE /\ gr_guards = {} /\ Idle

InitNext == InitLangfuse \/ InitGuards \/ WrapLLMWithMemori

InitSpec == InitInit /\ [][InitNext]_vars

----------------------------------------------------------------------------
(* Properties of the wrappers (checked under ChainSpec) *)

\* input validation reported a failure during the call
InputRejected(c) == HasEv(c.res.log, "validate_input", "invalid")
\* calls of the underlying model during the call
ModelCallsIn(c) == CountEv(c.res.log, "model")

\* C1: a call of GuardrailsLLMWrapper.invoke (string or message list) in
\* which input validation reports a failure makes no call of the underlying
\* model and returns the safe-refusal message.
C1_RejectedInputSkipsModel ==
    (last.op = "invoke" /\ InputRejected(last)) =>
        /\ ModelCallsIn(last) = 0
        /\ last.res.calls = <<>>
        /\ ~last.res.raised
        /\ last.res.ret = AIMessage(SafeRefusal, NoCalls)

\* C1 witness: a list whose second human message is rejected after the first
\* one passed, and a rejected string
C1_Witness ==
    /\ last.op = "invoke" /\ InputRejected(last)
    /\ last.input.kind = "list" /\ Len(last.input.msgs) = 2
    /\ last.input.msgs[1] = HumanMessage("hello")
    /\ last.input.msgs[2] = HumanMessage("toxic")
    /\ last.res.ret.content = SafeRefusal

\* C2 (as claimed): a call of GuardrailsLLMWrapper._generate whose last
\* message is a human message that fails input validation makes no call of
\* the underlying model's _generate.
C2_GenerateRejectedSkipsModel ==
    (last.op = "_generate" /\ InputRejected(last)) => ModelCallsIn(last) = 0

\* C3 (as claimed): one call of the chain's invoke (GuardrailsLLMWrapper.invoke,
\* MemoryLLMWrapper.invoke) calls the underlying model exactly once, and zero
\* times when input validation short-circuits, on every path.
C3_OneModelCallPerInvoke ==
    last.op \in {"invoke", "memory_invoke"} =>
        ModelCallsIn(last) = (IF InputRejected(last) THEN 0 ELSE 1)

\* the output guard of the call's use case is built and guardrails are on
OutputGuardInForce(c) == is_enabled /\ get_guard(OutputGuardOf(c.uc)) # "none"

\* C4 (as claimed): every non-empty model output that fails the output
\* validation check is replaced: what invoke returns after calling the model,
\* the guard being in force and not failing internally, is the safe-fallback
\* text or a text the check passes.
C4_FailingOutputReplaced ==
    (/\ last.op = "invoke" /\ ~last.res.raised
     /\ ModelCallsIn(last) > 0
     /\ OutputGuardInForce(last)
     /\ ~HasEv(last.res.log, "validate_output", "error")
     /\ last.res.ret.type = "ai" /\ last.res.ret.content # "") =>
        \/ last.res.ret.content = SafeFallback
        \/ GuardValidate(get_guard(OutputGuardOf(last.uc)),
                         last.res.ret.content).validation_passed

----------------------------------------------------------------------------
(* Properties of the compiled graphs (checked under Spec) *)

\* the last message of a conversation
LastMessage(msgs) == msgs[Len(msgs)]

\* C5: in the tool-augmented graphs a reasoning step that returns is followed
\* by the tool node if and only if the message it appended carries at least
\* one tool-call request, and by END otherwise; a reasoning step that raises
\* has no successor.
C5_ReasoningSuccessor ==
    [][(graph = "tools" /\ node = "chatbot" /\ steps' # steps) =>
          \/ raised' /\ node' = "chatbot"
          \/ /\ ~raised'
             /\ LastMessage(messages').type = "ai"
             /\ node' = (IF Len(LastMessage(messages').tool_calls) > 0
                         THEN "tools" ELSE "END")]_vars

\* C5 witness: a turn that went to the tool node after one reasoning step and
\* to END after another
C5_Witness ==
    /\ graph = "tools" /\ node = "END" /\ cycles >= 1
    /\ steps = <<"chatbot", "tools", "chatbot">>

\* C6: every assistant message with N tool-call requests that the tool node
\* has answered is followed in the conversation by exactly N tool messages,
\* the j-th answering the j-th request, and each request was invoked exactly
\* once, whatever the order in which the invocations completed.
C6_ToolMessagesInRequestOrder ==
    /\ \A id \in 1..Len(tool_runs) : tool_runs[id] <= 1
    /\ \A k \in 1..Len(messages) :
          LET m == messages[k]
              N == Len(m.tool_calls)
          IN (m.type = "ai" /\ N > 0 /\ k < Len(messages)) =>
                /\ Len(messages) >= k + N
                /\ \A j \in 1..N :
                      /\ messages[k + j].type = "tool"
                      /\ messages[k + j].tool_call_id = m.tool_calls[j].id
                      /\ tool_runs[m.tool_calls[j].id] = 1
                /\ (Len(messages) > k + N => messages[k + N + 1].type # "tool")

\* C6 witness: two requests whose invocations completed in the reverse order
C6_Witness ==
    /\ node = "chatbot" /\ finish_order = <<2, 1>>
    /\ Len(messages) = 4
    /\ Len(messages[2].tool_calls) = 2
    /\ messages[3].tool_call_id = messages[2].tool_calls[1].id
    /\ messages[4].tool_call_id = messages[2].tool_calls[2].id

TurnModelCalls == IF last.op = "none" THEN 0 ELSE ModelCallsIn(last)

\* C8 (as claimed): in the single-step graph a turn at END has made exactly
\* one reasoning step, one model call and appended one assistant message,
\* the tool node never entered.
C8_SingleStepOneModelCall ==
    (graph = "single" /\ node = "END") =>
        /\ steps = <<"chatbot">> /\ cycles = 0
        /\ TurnModelCalls = 1
        /\ Len(messages) = 2 /\ messages[2].type = "ai"

\* C8 (amended): in the single-step graph a turn has one reasoning step and
\* never enters the tool node or invokes a tool, whatever the model output
\* contains.  A step that returns ends the turn at END with one assistant
\* message appended, after one model call, or none when input validation
\* rejected the user's message, or two when the first call raised and the
\* wrapper called the model again.  A step that raises aborts the turn with
\* nothing appended.
C8_SingleStepTurn ==
    (graph = "single" /\ steps # <<>>) =>
        /\ steps = <<"chatbot">> /\ cycles = 0 /\ node # "tools"
        /\ \A id \in 1..Len(tool_runs) : tool_runs[id] = 0
        /\ messages[1].type = "human"
        /\ IF raised
           THEN /\ node = "chatbot" /\ Len(messages) = 1
                /\ ~HasEv(last.res.log, "model", "returned")
           ELSE /\ node = "END"
                /\ Len(messages) = 2 /\ messages[2].type = "ai"
                /\ TurnModelCalls =
                      (IF InputRejected(last) THEN 0
                       ELSE IF HasEv(last.res.log, "model", "raised") THEN 2 ELSE 1)

\* C8 witness: the single-step turn ended although the model's output
\* requests a tool
C8_Witness ==
    /\ graph = "single" /\ node = "END"
    /\ Len(messages) = 2 /\ Len(messages[2].tool_calls) > 0
    /\ TurnModelCalls = 1

\* from message k on: groups of an assistant message with tool-call requests
\* and the tool messages answering them in order, then one assistant message
\* without requests, which is the last message
RECURSIVE WellGrouped(_, _)
WellGrouped(msgs, k) ==
    IF k > Len(msgs) THEN FALSE
    ELSE LET m == msgs[k]
             N == Len(m.tool_calls)
         IN /\ m.type = "ai"
            /\ IF N = 0 THEN k = Len(msgs)
               ELSE /\ Len(msgs) > k + N
                    /\ \A j \in 1..N :
                          /\ msgs[k + j].type = "tool"
                          /\ msgs[k + j].tool_call_id = m.tool_calls[j].id
                    /\ WellGrouped(msgs, k + N + 1)

\* the number of assistant messages with tool-call requests
ToolRequestingMessages(msgs) ==
    Cardinality({k \in 1..Len(msgs) : msgs[k].type = "ai" /\ Len(msgs[k].tool_calls) > 0})

\* C9: a tool-augmented turn at END visited reasoning and the tool node in
\* alternation, ending with reasoning; its conversation is the user message,
\* then one group (assistant tool-call message, its tool results) per cycle,
\* then the final assistant message; with one request in the first response
\* and none in the second that is reasoning, tools, reasoning, END and the 4
\* messages user, assistant(tool-call), tool, assistant.
C9_ToolTurnSequence ==
    (graph = "tools" /\ node = "END") =>
        /\ Len(steps) = 2 * cycles + 1
        /\ \A i \in 1..Len(steps) :
              steps[i] = (IF i % 2 = 1 THEN "chatbot" ELSE "tools")
        /\ messages[1].type = "human"
        /\ WellGrouped(messages, 2)
        /\ ToolRequestingMessages(messages) = cycles
        /\ (cycles = 1 /\ Len(messages[2].tool_calls) = 1) =>
              /\ steps = <<"chatbot", "tools", "chatbot">>
              /\ Len(messages) = 4
              /\ messages[2].type = "ai" /\ messages[3].type = "tool"
              /\ messages[4].type = "ai" /\ messages[4].tool_calls = NoCalls

\* C9 witness: the turn of one tool request followed by a plain answer
C9_Witness ==
    /\ graph = "tools" /\ node = "END" /\ cycles = 1
    /\ Len(messages) = 4 /\ Len(messages[2].tool_calls) = 1
    /\ messages[3].tool_call_id = messages[2].tool_calls[1].id
    /\ messages[4].content = "a long enough answer"

\* the configuration registers no tool: no mcpServers key, an empty mapping,
\* or every server disabled
NoToolRegistered(cfg) ==
    \/ ~cfg.has_key
    \/ \A i \in 1..Len(cfg.servers) : cfg.servers[i].disabled

\* C10: when the MCP use case is set up with a configuration that registers
\* no tool, setup_graph fails with an error, no graph exists, and no turn is
\* started: no reasoning step, no model call, no tool invocation.
C10_NoToolsNoTurn ==
    (usecase = "MCP Chatbot" /\ NoToolRegistered(mcp_config)) =>
        /\ graph = "none" /\ setup_error # "none" /\ tools = <<>>
        /\ node = "START" /\ steps = <<>> /\ messages = <<>>
        /\ last = NoCall /\ tool_runs = <<>> /\ cycles = 0

\* C10 witness: the MCP use case was requested with every server disabled
\* and setup failed
C10_Witness ==
    /\ usecase = "MCP Chatbot" /\ mcp_config.given /\ mcp_config.has_key
    /\ Len(mcp_config.servers) = 2
    /\ \A i \in 1..Len(mcp_config.servers) : mcp_config.servers[i].disabled
    /\ setup_error # "none"

\* C11: setup_graph called with a use-case identifier outside the closed set
\* fails with an unknown-use-case error for the caller; no graph of any
\* topology is returned and no turn runs.
C11_UnknownUseCaseRejected ==
    (usecase # "none" /\ usecase \notin UseCases) =>
        /\ graph = "none" /\ tools = <<>>
        /\ setup_error = "ValueError: Unknown usecase"
        /\ node = "START" /\ steps = <<>> /\ messages = <<>> /\ last = NoCall

\* C11 witness: an identifier differing from a known one only by case was
\* rejected
C11_Witness ==
    /\ usecase = "basic chatbot"
    /\ setup_error = "ValueError: Unknown usecase"
    /\ graph = "none"

----------------------------------------------------------------------------
(* Properties of tool registration (checked under RegSpec) *)

\* a tool built from entry e is among the tools returned
HasToolFor(ts, e) == \E k \in 1..Len(ts) : ts[k].name = ToolNameOf(e.name)

\* C12 (as claimed): when a mapping whose entries are otherwise well formed
\* has an entry with an empty command, registration raises nothing, returns a
\* tool for every enabled entry with a command, and none for the entry with
\* the empty command.
C12_EmptyCommandSkipped ==
    (/\ last.op = "create_mcp_tools"
     /\ \A i \in 1..Len(mcp_config.servers) : mcp_config.servers[i].well_typed
     /\ \E i \in 1..Len(mcp_config.servers) : mcp_config.servers[i].command = "") =>
        /\ ~last.raised
        /\ \A i \in 1..Len(mcp_config.servers) :
              LET e == mcp_config.servers[i] IN
              /\ (~e.disabled /\ e.command # "") => HasToolFor(tools, e)
              /\ e.command = "" => ~HasToolFor(tools, e)

----------------------------------------------------------------------------
(* Properties of MCPTool._run (checked under ToolSpec) *)

\* the strings _run returns for a failed invocation
ErrorResult(text) ==
    text \in {"Error: stderr", "Error executing MCP tool: exception text"}

\* C13: every invocation of _run that is over returned a string and raised
\* nothing: stdout after exit 0, an error text carrying stderr after a
\* non-zero exit, an error text after a failure to spawn or a timeout.
C13_RunAlwaysReturns ==
    \A i \in 1..Len(pending) :
        pending[i].outcome # "none" =>
            /\ results[i] # "raise" /\ results[i] # "none"
            /\ pending[i].outcome = "exit0" => results[i] = "stdout"
            /\ pending[i].outcome = "nonzero" => results[i] = "Error: stderr"
            /\ pending[i].outcome \in {"spawn_error", "timeout"} =>
                  results[i] = "Error executing MCP tool: exception text"
            /\ pending[i].outcome # "exit0" => ErrorResult(results[i])

\* C13 witness: one invocation failed to spawn and another exited non-zero
C13_Witness ==
    /\ Len(pending) = 2
    /\ pending[1].outcome = "spawn_error" /\ pending[2].outcome = "nonzero"
    /\ ErrorResult(results[1]) /\ results[2] = "Error: stderr"

\* C14: a process still running when the timeout of 30 seconds expires is
\* killed and its invocation returns an error text; no invocation that has
\* returned has a running process, and no process runs past the timeout.
C14_TimeoutKillsProcess ==
    \A i \in 1..Len(pending) :
        /\ pending[i].proc = "running" =>
              pending[i].elapsed <= TimeoutSeconds /\ results[i] = "none"
        /\ results[i] # "none" => pending[i].proc # "running"
        /\ pending[i].outcome = "timeout" =>
              /\ pending[i].proc = "killed"
              /\ pending[i].elapsed = TimeoutSeconds
              /\ ErrorResult(results[i])

\* C14 witness: an invocation timed out while a later one is still running
C14_Witness ==
    /\ Len(pending) = 2
    /\ pending[1].outcome = "timeout" /\ pending[1].proc = "killed"
    /\ ErrorResult(results[1])
    /\ pending[2].proc = "running" /\ pending[2].elapsed > 0

----------------------------------------------------------------------------
(* Properties of telemetry (checked under TeleSpec) *)

\* C15: whatever the sink (absent, unreachable, failing on every call,
\* failing on some, working), logging the final answer changes nothing of the
\* conversation: the messages, the position at END and the steps stay as
\* they were, no exception of create_trace, log_generation or
\* log_user_interaction reaches its caller, and a generation is recorded
\* only by a working sink.
C15_TelemetryInvisible ==
    [][telemetry' # telemetry =>
          /\ messages' = messages /\ steps' = steps /\ last' = last
          /\ node = "END" /\ node' = "END"
          /\ ~raised'
          /\ telemetry'.escaped = {}
          /\ (telemetry'.generations > 0 <=> sink = "working")
          /\ \A s \in Sinks : ~log_user_interaction(s).raised]_vars

\* C15 witness: a tool-augmented turn ended and its final answer was logged
\* against a sink that fails on every call
C15_Witness ==
    /\ sink = "failing" /\ telemetry.logged /\ telemetry.generations = 0
    /\ graph = "tools" /\ node = "END" /\ cycles = 1 /\ ~raised
    /\ Len(messages) = 4

\* C21: every invocation of _run calls subprocess.run exactly once, whatever
\* the outcome (exit 0, non-zero exit, timeout, failure to spawn); an
\* invocation that failed has returned its error text and is not run again.
C21_NoRetries ==
    \A i \in 1..Len(pending) :
        /\ pending[i].spawns = 1
        /\ pending[i].outcome # "none" =>
              pending[i].proc # "running" /\ results[i] = MCPTool_run(pending[i].outcome)

\* C21 witness: one invocation exited non-zero and another timed out, each
\* after a single spawn
C21_Witness ==
    /\ Len(pending) = 2
    /\ pending[1].outcome = "nonzero" /\ pending[1].spawns = 1
    /\ pending[2].outcome = "timeout" /\ pending[2].spawns = 1
    /\ ErrorResult(results[1]) /\ ErrorResult(results[2])

----------------------------------------------------------------------------
(* Properties of the validation stages' own failures (checked under ChainSpec) *)

\* the validate_input events of a call, one per human message validated
InputEvents(c) == SelectSeq(c.res.log, LAMBDA ev : ev.e = "validate_input")

\* how many of the first i messages are human messages
HumansUpTo(msgs, i) == Cardinality({j \in 1..i : msgs[j].type = "human"})

\* C16: when a guard's validate raises internally, validate_user_input and
\* validate_llm_output report valid with the text unchanged; in invoke the
\* model is then still called, receiving the text whose check raised as it
\* was given, the output whose check raised is returned as the model gave
\* it without a warning, and an exception leaves invoke only when the
\* model itself raised on both of its calls.
C16_FailOpen ==
    /\ \A t \in UserTexts : validate_user_input(t, TRUE) = Verdict(TRUE, t, "none")
    /\ \A t \in OutputTexts, uc \in ChainUseCases :
          validate_llm_output(t, uc, TRUE) = Verdict(TRUE, t, "none")
    /\ (/\ last.op = "invoke" /\ ~InputRejected(last)
        /\ HasEv(last.res.log, "validate_input", "error")) =>
          /\ ModelCallsIn(last) >= 1
          /\ IF last.input.kind = "str"
             THEN last.res.calls[1] = last.input
             ELSE /\ Len(last.res.calls[1].msgs) = Len(last.input.msgs)
                  /\ \A i \in 1..Len(last.input.msgs) :
                        (/\ last.input.msgs[i].type = "human"
                         /\ InputEvents(last)[HumansUpTo(last.input.msgs, i)].a = "error")
                        => last.res.calls[1].msgs[i] = last.input.msgs[i]
    /\ (last.op = "invoke" /\ HasEv(last.res.log, "validate_output", "error")) =>
          /\ ~last.res.raised
          /\ ModelCallsIn(last) = 1
          /\ last.res.ret.type = "ai"
          /\ ~HasEv(last.res.log, "warn", "output")
    /\ (last.op = "invoke" /\ last.res.raised) =>
          Len(SelectSeq(last.res.log, LAMBDA ev : ev = Ev("model", "raised"))) = 2

\* C16 witness: the input guard raised on a text it would reject and the
\* output guard raised on an answer it would reject; the model received the
\* text and its answer was returned
C16_Witness ==
    /\ last.op = "invoke" /\ last.uc = "MCP Chatbot"
    /\ last.input = ListInput(<<HumanMessage("toxic")>>)
    /\ HasEv(last.res.log, "validate_input", "error")
    /\ HasEv(last.res.log, "validate_output", "error")
    /\ last.res.calls = <<last.input>>
    /\ last.res.ret = AIMessage("unsafe", NoCalls)

----------------------------------------------------------------------------
(* Properties of the conversation state within a turn (checked under Spec) *)

\* C17 (as claimed): within a turn the conversation is append-only: every
\* step taken from the chatbot node or from the tool node leaves the messages
\* it found as a prefix of the messages it leaves; none is replaced, removed
\* or reordered.
C17_AppendOnly ==
    [][(node \in {"chatbot", "tools"}) => (messages = SubSeq(messages', 1, Len(messages))
                                           /\ Len(messages) <= Len(messages'))
      ]_vars

----------------------------------------------------------------------------
(* Properties of the tool node's successor (checked under Spec) *)

----------------------------------------------------------------------------
(* Properties of failed tool invocations within a turn (checked under Spec) *)

\* the texts of tool messages reporting a failure
ToolErrorTexts ==
    {MCPTool_run(proc) : proc \in ProcOutcomes \ {"exit0"}} \cup {"Error: search failed"}

\* C20: a tool invocation that failed (non-zero exit, failure to spawn,
\* timeout) yields an error text, not an exception; no step of the tool node
\* aborts the turn; the tool node appends a tool message for every request,
\* with the tool's output or its error text, and hands over to the chatbot
\* node; a turn is aborted only by a chatbot step whose chain raised.
C20_FailedToolNonFatal ==
    [][/\ \A proc \in ProcOutcomes \ {"exit0"} :
             MCPTool_run(proc) # "raise" /\ ErrorResult(MCPTool_run(proc))
       /\ node = "tools" => ~raised'
       /\ (node = "tools" /\ steps' # steps) =>
             /\ node' = "chatbot"
             /\ \A j \in 1..Len(Requests(messages)) :
                   LET m == messages'[Len(messages) + j] IN
                   /\ m.type = "tool" /\ m.tool_call_id = Requests(messages)[j].id
                   /\ m.content \in ToolErrorTexts \cup {"stdout", "search results"}
       /\ (raised' /\ ~raised) => (node = "chatbot" /\ last'.res.raised)
      ]_vars

\* C20 witness: an MCP turn in which the tool's process could not be run
\* reached END with the error text in the conversation and a final answer
C20_Witness ==
    /\ usecase = "MCP Chatbot" /\ node = "END" /\ ~raised
    /\ Len(messages) = 4
    /\ messages[3].type = "tool"
    /\ messages[3].content = "Error executing MCP tool: exception text"
    /\ messages[4].type = "ai" /\ messages[4].tool_calls = NoCalls

----------------------------------------------------------------------------
(* Properties of the model the chatbot nodes invoke (checked under Spec) *)

\* the position of the first event of a kind in a log, 0 when there is none
FirstEv(log, e) ==
    IF \E i \in 1..Len(log) : log[i].e = e
    THEN CHOOSE i \in 1..Len(log) : log[i].e = e /\ \A j \in 1..(i - 1) : log[j].e # e
    ELSE 0

----------------------------------------------------------------------------
(* Properties of the composed chain (checked under ChainSpec) *)

\* C23 (as claimed): within one invoke of the chain with memory, input
\* validation runs before memory recall, memory recall before the model call
\* and output validation after the model has returned: memory recall never
\* runs on an input that input validation rejected, nor before input
\* validation, and output validation never runs before a model call returned.
C23_StageOrder ==
    last.op = "memory_chain_invoke" =>
        /\ InputRejected(last) =>
              ~\E i \in 1..Len(last.res.log) : last.res.log[i].e = "memory_query"
        /\ \A i, j \in 1..Len(last.res.log) :
              (last.res.log[i].e = "memory_query" /\ last.res.log[j].e = "validate_input")
              => j < i
        /\ \A i \in 1..Len(last.res.log) :
              last.res.log[i].e = "validate_output" =>
                 \E j \in 1..(i - 1) : last.res.log[j] = Ev("model", "returned")

----------------------------------------------------------------------------
(* Properties of MemoryLLMWrapper.invoke (checked under ChainSpec) *)

\* C24 (as claimed): in MemoryLLMWrapper.invoke, when the memory store
\* returned a non-empty result for the latest user text, every call of the
\* model receives one system message followed by the existing messages in
\* their order; when the result is empty, there is no user text, or the
\* store is unavailable or raised, the model receives the input unmodified.
C24_MemoryRecallInput ==
    last.op = "memory_invoke" =>
        \A c \in 1..Len(last.res.calls) :
            IF HasEv(last.res.log, "memory_query", "found")
            THEN /\ last.res.calls[c].kind = "list"
                 /\ Len(last.res.calls[c].msgs) >= 1
                 /\ last.res.calls[c].msgs[1].type = "system"
                 /\ Tail(last.res.calls[c].msgs) = last.input.msgs
            ELSE last.res.calls[c] = last.input

\* the first outcome of the model that is not an exception
FirstReturned(outs) ==
    outs[CHOOSE i \in 1..Len(outs) :
            outs[i] # Raises /\ \A j \in 1..(i - 1) : outs[j] = Raises]

\* C25: MemoryLLMWrapper.invoke records the pair at most once, as its last
\* step and only after a call of the model has returned, and returns what
\* the model returned, unchanged, whether recording succeeded, raised or was
\* skipped; it raises only when every call of the model raised.
C25_RecordBestEffort ==
    last.op = "memory_invoke" =>
        /\ CountEv(last.res.log, "record") <= 1
        /\ \A i \in 1..Len(last.res.log) :
              last.res.log[i].e = "record" =>
                 /\ i = Len(last.res.log)
                 /\ \E j \in 1..(i - 1) : last.res.log[j] = Ev("model", "returned")
        /\ last.res.raised <=> (\A k \in 1..3 : last.outs[k] = Raises)
        /\ ~last.res.raised => last.res.ret = FirstReturned(last.outs)

\* C25 witness: recording raised after the model answered on its second
\* call, and the answer was returned
C25_Witness ==
    /\ last.op = "memory_invoke" /\ HasEv(last.res.log, "record", "failed")
    /\ last.outs[1] = Raises /\ last.outs[2] = AIMessage("unsafe", NoCalls)
    /\ last.res.ret = last.outs[2] /\ ~last.res.raised

----------------------------------------------------------------------------
(* Properties of the MCP client (checked under ClientSpec) *)

\* C26: the tools get_all_tools returns are, for every connected server whose
\* toolkit listed its tools, exactly the listed tools whose names are not in
\* that server's disabledTools: no disabled tool is returned and no tool
\* that is not disabled is dropped.
C26_DisabledToolsFiltered ==
    client.stage = "listed" =>
        /\ \A sv \in DOMAIN client.toolkits, t \in ClientTools :
              ~client.toolkits[sv].raises =>
                 (<<sv, t>> \in client.all_tools <=>
                    (t \in client.toolkits[sv].tools
                     /\ t \notin client.config[sv].disabledTools))
        /\ \A p \in client.all_tools : p[1] \in DOMAIN client.toolkits

\* C26 witness: a server offering two tools, one of them disabled, and the
\* other one returned
C26_Witness ==
    /\ client.stage = "listed"
    /\ "filesystem" \in DOMAIN client.toolkits
    /\ client.toolkits["filesystem"].tools = ClientTools
    /\ client.config["filesystem"].disabledTools = {"write_file"}
    /\ client.all_tools = {<<"filesystem", "read_file">>}

\* what a config file contributes to the merged mapping
Contribution(f) == IF f.kind = "ok" THEN f.servers ELSE EmptyMap

\* C27: the mapping MCPConfig loads has exactly the server names of the user
\* file and of the workspace file together; a name in both has the workspace
\* file's entry, whole; a file that is missing, unreadable or without the
\* mcpServers key contributes nothing, and loading completes all the same.
C27_MergedConfig ==
    client.stage = "loaded" =>
        /\ DOMAIN client.config =
              (DOMAIN Contribution(client.files[1])) \cup (DOMAIN Contribution(client.files[2]))
        /\ \A n \in DOMAIN client.config :
              client.config[n] =
                 (IF n \in DOMAIN Contribution(client.files[2])
                  THEN Contribution(client.files[2])[n]
                  ELSE Contribution(client.files[1])[n])
        /\ \A k \in 1..2 :
              client.files[k].kind # "ok" =>
                 client.config = Contribution(client.files[3 - k])

\* C27 witness: both files name filesystem and only the user file names
\* sqlite; the workspace entry of filesystem and the user entry of sqlite are
\* loaded
C27_Witness ==
    /\ client.stage = "loaded"
    /\ client.files[1].kind = "ok" /\ DOMAIN client.files[1].servers = ServerNames
    /\ client.files[2].kind = "ok" /\ DOMAIN client.files[2].servers = {"filesystem"}
    /\ client.files[1].servers["filesystem"].disabled
    /\ client.config["filesystem"] = ClientEntry("workspace", FALSE, {"read_file"})
    /\ client.config["sqlite"].scope = "user"

----------------------------------------------------------------------------
(* Properties of the environment of a tool's process (checked under EnvSpec) *)

\* C28: the environment given to a tool's process has every key of the
\* descriptor's env with the descriptor's value, every other ambient key with
\* its ambient value, and no other key; the process's own environment is the
\* same after the invocation as before it.
C28_EnvMerged ==
    [][last'.op = "_run" =>
          /\ DOMAIN last'.env = (DOMAIN environ) \cup (DOMAIN last'.mcp_env)
          /\ \A k \in DOMAIN last'.mcp_env : last'.env[k] = last'.mcp_env[k]
          /\ \A k \in (DOMAIN environ) \ (DOMAIN last'.mcp_env) : last'.env[k] = environ[k]
          /\ environ' = environ
      ]_vars

\* C28 witness: the descriptor overrides one ambient key and adds another,
\* and a third ambient key is inherited
C28_Witness ==
    /\ last.op = "_run" /\ last.calls = 2
    /\ DOMAIN environ = {"PATH", "HOME"}
    /\ environ["PATH"] = "ambient value" /\ environ["HOME"] = "ambient value"
    /\ DOMAIN last.mcp_env = {"PATH", "BRAVE_API_KEY"}
    /\ last.env["PATH"] = "descriptor value" /\ last.env["HOME"] = "ambient value"
    /\ last.env["BRAVE_API_KEY"] = "descriptor value"

----------------------------------------------------------------------------
(* Properties of service initialization (checked under InitSpec) *)

\* C29: no initialization of a process-wide service raises, and after a
\* failure at any of its steps the service is disabled: the telemetry manager
\* has neither client nor callback handler (is_enabled false), the guardrails
\* configuration is disabled, and the model is returned without the memory
\* wrapper.
C29_InitFailsDisabled ==
    \A i \in DOMAIN steps :
        /\ ~steps[i].raised
        /\ steps[i].failed =>
              CASE steps[i].svc = "langfuse" ->
                       /\ ~steps[i].langfuse /\ ~steps[i].callback_handler
                       /\ ~LangfuseManager_is_enabled(steps[i])
                [] steps[i].svc = "guardrails" -> ~gr_enabled /\ ~is_enabled
                [] steps[i].svc = "memori" -> steps[i].llm = "original"

----------------------------------------------------------------------------
(* Properties of the topology of the built graph (checked under Spec) *)

\* the edges of the single-step topology and of the tool-augmented topology
SingleStepEdges == {<<"START", "chatbot">>, <<"chatbot", "END">>}
ToolAugmentedEdges ==
    {<<"START", "chatbot">>, <<"chatbot", "tools">>, <<"chatbot", "END">>,
     <<"tools", "chatbot">>}

\* C30: setup_graph builds the single-step topology exactly for Basic Chatbot
\* and the tool-augmented topology exactly for Chatbot with Tool, AI News and
\* MCP Chatbot (when it builds a graph at all); a turn moves along the edges
\* of that topology only, the single-step one never entering the tool node;
\* and once built, the topology stays the same for the rest of the session.
C30_TopologyOfUseCase ==
    /\ [](/\ graph = "single" <=> usecase = "Basic Chatbot"
          /\ graph = "tools" =>
                usecase \in {"Chatbot with Tool", "AI News", "MCP Chatbot"}
          /\ usecase \in {"Chatbot with Tool", "AI News", "MCP Chatbot"} =>
                \/ graph = "tools" /\ setup_error = "none"
                \/ graph = "none" /\ setup_error # "none"
          /\ graph = "single" => node # "tools" /\ pending = <<>>)
    /\ [][/\ graph # "none" => graph' = graph /\ usecase' = usecase
          /\ (graph' = "single" /\ node' # node) =>
                <<node, node'>> \in SingleStepEdges
          /\ (graph' = "tools" /\ node' # node) =>
                <<node, node'>> \in ToolAugmentedEdges
      ]_vars

\* C30 witness: the graph built for AI News is in its tool node, after the
\* conditional edge was taken
C30_Witness ==
    /\ usecase = "AI News" /\ graph = "tools" /\ node = "tools" /\ cycles >= 1

----------------------------------------------------------------------------
(* Properties of the warnings of the wrapper (checked under ChainSpec) *)

\* C31: in every call of the wrapper, each failed validation check is followed
\* at once by a warning of the same kind; a returned safe-fallback text, a
\* returned safe refusal, and a refusal text sent to the model in place of the
\* input all come with a warning in the log of the same call.
C31_ReplacementWarned ==
    last.op \in {"invoke", "_generate", "memory_chain_invoke"} =>
        LET log == last.res.log IN
        /\ \A i \in DOMAIN log :
              \A what \in {"input", "output"} :
                 log[i] = Ev("validate_" \o what, "invalid") =>
                    i < Len(log) /\ log[i + 1] = Ev("warn", what)
        /\ last.res.ret.content = SafeFallback => HasEv(log, "warn", "output")
        /\ last.res.ret.content = SafeRefusal => HasEv(log, "warn", "input")
        /\ (\E j \in DOMAIN last.res.calls :
               last.res.calls[j] = ListInput(<<HumanMessage(SafeRefusal)>>)) =>
              HasEv(log, "warn", "input")

\* C31 witness: the model's unsafe answer was replaced by the safe fallback
\* and the warning was emitted
C31_Witness ==
    /\ last.op = "invoke" /\ last.uc = "MCP Chatbot"
    /\ last.res.ret.content = SafeFallback
    /\ HasEv(last.res.log, "validate_output", "invalid")
    /\ HasEv(last.res.log, "warn", "output")

----------------------------------------------------------------------------
(* Properties of output validation and the conditional edge (ChainSpec) *)

\* the model's answer an invoke returned, before output validation: the
\* outcome of the last call the model received
ModelAnswer == last.outs[Len(last.outs)]

\* C32: an invoke that returns the model's answer returns it with the same
\* tool-call requests, so tools_condition decides the same on the returned
\* message as on the model's own; an answer with empty content is returned
\* as it is, with no output validation; and a returned safe-fallback text
\* carries only the tool-call requests of the model's answer.
C32_ToolCallsKept ==
    (last.op = "invoke" /\ ~last.res.raised /\ Len(last.outs) > 0) =>
        /\ last.res.ret.tool_calls = ModelAnswer.tool_calls
        /\ tools_condition(<<last.res.ret>>) = tools_condition(<<ModelAnswer>>)
        /\ ModelAnswer.content = "" =>
              /\ last.res.ret = ModelAnswer
              /\ \A a \in {"valid", "invalid", "error"} :
                    ~HasEv(last.res.log, "validate_output", a)
        /\ last.res.ret.content = SafeFallback =>
              last.res.ret.tool_calls = ModelAnswer.tool_calls

\* C32 witness: an unsafe answer with a tool-call request had its text
\* replaced and kept the request
C32_Witness ==
    /\ last.op = "invoke" /\ Len(last.outs) = 1
    /\ ModelAnswer.content = "unsafe" /\ Len(ModelAnswer.tool_calls) = 1
    /\ last.res.ret.content = SafeFallback
    /\ Len(last.res.ret.tool_calls) = 1
    /\ tools_condition(<<last.res.ret>>) = "tools"

----------------------------------------------------------------------------
(* Properties of a rejected turn in the tool-augmented graphs (Spec) *)

\* the input guard works and rejects the user's message of this turn
C33_Rejecting ==
    /\ graph = "tools" /\ is_enabled /\ get_guard("input_safety") # "none"
    /\ Len(messages) > 0 /\ messages[1].type = "human"
    /\ ~GuardValidate("input_safety", messages[1].content).validation_passed

\* C33 (as claimed): in a tool-augmented graph, when the input guard rejects
\* the user's message, the turn consists of one reasoning step that appends
\* the safe refusal with no tool-call requests and is at END: the tool node
\* never ran, no tool was invoked and the model was never called.
C33_RejectedTurnEnds ==
    (/\ graph = "tools" /\ last.op = "invoke"
     /\ HasEv(last.res.log, "validate_input", "invalid")) =>
        /\ ~GuardValidate("input_safety", messages[1].content).validation_passed
        /\ messages = <<messages[1], AIMessage(SafeRefusal, NoCalls)>>
        /\ node = "END" /\ ~raised
        /\ steps = <<"chatbot">> /\ cycles = 0
        /\ tool_runs = <<>> /\ pending = <<>>
        /\ last.res.calls = <<>>
        /\ \A a \in {"returned", "raised"} : ~HasEv(last.res.log, "model", a)

\* C33 (amended): in a tool-augmented graph, the reasoning step in which the
\* input guard rejects the user's message calls the model zero times, appends
\* the safe refusal with no tool-call requests and ends the turn at END with
\* no pending tool request.  When that step is the first one, the whole turn
\* has zero tool invocations and zero model calls.  A reasoning step on a
\* message the working guard rejects either rejects it or found the guard
\* raising, in which case the message passed unchecked.
C33_RejectingStepEnds ==
    /\ (/\ graph = "tools" /\ last.op = "invoke"
        /\ HasEv(last.res.log, "validate_input", "invalid")) =>
          /\ ~GuardValidate("input_safety", messages[1].content).validation_passed
          /\ LastMessage(messages) = AIMessage(SafeRefusal, NoCalls)
          /\ node = "END" /\ ~raised /\ pending = <<>>
          /\ steps[Len(steps)] = "chatbot"
          /\ last.res.calls = <<>>
          /\ \A a \in {"returned", "raised"} : ~HasEv(last.res.log, "model", a)
          /\ cycles = 0 =>
                /\ steps = <<"chatbot">> /\ tool_runs = <<>>
                /\ messages = <<messages[1], AIMessage(SafeRefusal, NoCalls)>>
    /\ (C33_Rejecting /\ steps # <<>>) =>
          \/ HasEv(last.res.log, "validate_input", "invalid")
          \/ HasEv(last.res.log, "validate_input", "error")

\* C33 witness: an MCP Chatbot turn on a toxic message ended at its first
\* reasoning step with the refusal
C33_Witness ==
    /\ usecase = "MCP Chatbot" /\ C33_Rejecting /\ steps = <<"chatbot">>
    /\ HasEv(last.res.log, "validate_input", "invalid")
    /\ node = "END" /\ messages[2].content = SafeRefusal

----------------------------------------------------------------------------
(* Properties of disabled guardrails (checked under InitSpec) *)

\* validation is the identity and the chain is the bare model
ValidationIsIdentity ==
    /\ \A t \in UserTexts : validate_user_input(t, FALSE) = Verdict(TRUE, t, "none")
    /\ \A t \in OutputTexts, uc \in UseCases \cup {"general"} :
          validate_llm_output(t, uc, FALSE) = Verdict(TRUE, t, "none")
    /\ \A g \in GuardNames : get_guard(g) = "none"
    /\ create_guardrails_llm = "raw"
    /\ \A input \in ChainInputs, m1 \in ChainOutcomes, m2 \in ChainOutcomes :
          input.kind = "list" =>
             ChainInvoke(input.msgs, {}, FALSE, m1, m2) = Raw_invoke(input, m1)

\* C34: once GuardrailsConfig is constructed with guardrails disabled by
\* configuration, or after a failure in its initialization, validate_user_input
\* and validate_llm_output return every text valid and unchanged, get_guard
\* returns no guard, create_guardrails_llm returns the model it was given,
\* and a chain invoke equals the direct model invoke.
C34_DisabledIsIdentity ==
    \A i \in DOMAIN steps :
        (steps[i].svc = "guardrails" /\ (~gr_enabled \/ steps[i].failed)) =>
            ValidationIsIdentity

----------------------------------------------------------------------------
(* Properties of the output-validation profile (checked under Spec) *)

\* the profile the use case is to be validated with
ProfileOf(uc) ==
    CASE uc \in {"MCP Chatbot", "Chatbot with Tool"} -> "content_moderation"
      [] OTHER -> "output_quality"

\* C35: the guard validate_llm_output uses is content moderation for MCP
\* Chatbot and Chatbot with Tool and output quality for Basic Chatbot, AI
\* News and general; with guardrails enabled the model of every reasoning
\* step, tools bound or not, validates for the use case chosen at setup, so an
\* answer is rejected only by, and an unsafe answer is let through only by,
\* the profile of that use case.
C35_ProfileOfUseCase ==
    /\ [](\A uc \in UseCases \cup {"general"} : OutputGuardOf(uc) = ProfileOf(uc))
    /\ [][(node = "chatbot" /\ steps' # steps /\ is_enabled) =>
             /\ NodeLLM.kind = "guardrails" /\ NodeLLM.usecase = usecase
             /\ HasEv(last'.res.log, "validate_output", "invalid") =>
                   /\ ProfileOf(usecase) = "content_moderation"
                   /\ last'.res.ret.content = SafeFallback
             /\ (/\ HasEv(last'.res.log, "validate_output", "valid")
                 /\ last'.res.ret.content = "unsafe") =>
                   ProfileOf(usecase) = "output_quality"
      ]_vars

\* C35 witness: in an AI News session the reasoning step after the tool node,
\* on the model with the tools bound, validated an answer with the
\* output-quality profile, which lets the text through that content
\* moderation rejects
C35_Witness ==
    /\ is_enabled /\ usecase = "AI News" /\ graph = "tools"
    /\ steps = <<"chatbot", "tools", "chatbot">>
    /\ HasEv(last.res.log, "validate_output", "valid")
    /\ last.res.ret.content = "unsafe"

----------------------------------------------------------------------------
(* Properties of the connections of MCPClientManager (checked under ManagerSpec) *)

\* C36: connect_all_servers tries each server of the configuration that is
\* not disabled once and no other, whether or not earlier ones failed; it
\* does not raise; and it returns exactly the servers whose connection
\* succeeded.
C36_ConnectBestEffort ==
    (client.stage = "manager" /\ client.call.op = "connect_all_servers") =>
        LET call == client.call IN
        /\ ~call.raised
        /\ {call.attempted[i] : i \in DOMAIN call.attempted}
              = {n \in DOMAIN client.config : ~client.config[n].disabled}
        /\ Len(call.attempted) = Cardinality(get_enabled_servers(client.config))
        /\ call.returned = {n \in DOMAIN call.outcomes : call.outcomes[n] = "ok"}
        /\ call.returned \subseteq client.toolkits

\* C36 witness: of two enabled servers one failed to connect and the other
\* one was returned
C36_Witness ==
    /\ client.stage = "manager" /\ client.call.op = "connect_all_servers"
    /\ DOMAIN client.call.outcomes = ServerNames
    /\ Len(client.call.attempted) = 2
    /\ Cardinality(client.call.returned) = 1

\* C38: after any sequence of connect_to_server, connect_all_servers and
\* disconnect_all, every server with a toolkit has an active session; after
\* disconnect_all, which does not raise, there is no session and no toolkit,
\* also when closing sessions raised.
C38_ToolkitsHaveSessions ==
    client.stage = "manager" =>
        /\ client.toolkits \subseteq client.active_sessions
        /\ client.call.op = "disconnect_all" =>
              /\ ~client.call.raised
              /\ client.active_sessions = {} /\ client.toolkits = {}

\* C38 witness: disconnect_all emptied both maps although closing both
\* sessions raised
C38_Witness ==
    /\ client.stage = "manager" /\ client.call.op = "disconnect_all"
    /\ client.call.close_raised = ServerNames
    /\ client.active_sessions = {} /\ client.toolkits = {}

----------------------------------------------------------------------------
(* Properties of the memory stage and the caller's list (ChainSpec) *)

\* the recalled system message is in the model's input and not in the caller's
RecallSeenByModelOnly ==
    /\ \A i \in DOMAIN last.res.input.msgs : last.res.input.msgs[i].type # "system"
    /\ (/\ last.input.kind = "list" /\ HasEv(last.res.log, "memory_query", "found")
        /\ Len(last.res.calls) > 0) =>
          /\ last.res.calls[1].msgs[1].type = "system"
          /\ Len(last.res.calls[1].msgs) = Len(last.input.msgs) + 1

\* C37: after MemoryLLMWrapper.invoke, around the bare model or around the
\* model get_llm_model returns, the caller's input is what it was before the
\* call (same length, same elements, same order); the recalled system message
\* is in the list the model received and not in the caller's.
C37_MemoryLeavesInput ==
    last.op \in {"memory_invoke", "memory_chain_invoke"} =>
        /\ last.res.input = last.input
        /\ RecallSeenByModelOnly

----------------------------------------------------------------------------
(* Properties of the registered tool set (checked under RegSpec) *)

\* the positions of the tools made for the entry e
ToolsFor(ts, e) == {k \in 1..Len(ts) : ts[k].name = "mcp_" \o e.name}

\* C39: create_mcp_tools_from_config returns one tool, named mcp_S, for every
\* server S of the mapping that is not disabled, none for a disabled server
\* and no other tool; the names of the returned tools are pairwise distinct.
C39_OneToolPerEnabledServer ==
    last.op = "create_mcp_tools" =>
        /\ \A i \in 1..Len(mcp_config.servers) :
              LET e == mcp_config.servers[i] IN
              Cardinality(ToolsFor(tools, e)) = (IF e.disabled THEN 0 ELSE 1)
        /\ \A k \in 1..Len(tools) :
              \E i \in 1..Len(mcp_config.servers) : k \in ToolsFor(tools, mcp_config.servers[i])
        /\ \A j, k \in 1..Len(tools) : j # k => tools[j].name # tools[k].name

====
